---------------------------- MODULE Spec2Model ----------------------------
(***************************************************************************)
(* A model of pym4 (src/m4/__init__.py): the peekable/insertable byte      *)
(* cursor, the Lexer state machine and the Parser's macro-expansion        *)
(* engine with its diversions.                                             *)
(*                                                                         *)
(* A byte is a one-character string, a byte string is a sequence of bytes. *)
(* The backquote byte, which no TLA+ string can hold, is written BQ.       *)
(***************************************************************************)
EXTENDS Integers, Sequences, FiniteSets, TLC

VARIABLES
    iter,               \* Lexer.iter: the peek_insert_iter [inserted, peeked, src]
    state,              \* Lexer.state: "generic" (None), "identifier", "comment", "string"
    chars,              \* Lexer.chars
    nesting_level,      \* Lexer.nesting_level
    start_quote,        \* Lexer.start_quote
    end_quote,          \* Lexer.end_quote
    lexpc,              \* where the generator _parse_internal stands
    yielded,            \* the tokens of the running "for tok in tokens: yield tok"
    macros,             \* Parser.macros
    current_diversion,  \* Parser.current_diversion
    diversions,         \* Parser.diversions
    stream,             \* the sink Parser.parse writes to
    stack,              \* the active _parse_args / _builtin_dnl calls, innermost first
    pc,                 \* where the consumer of the tokens stands
    call,               \* the macro call about to be made: [name, bare, fn, args]
    error,              \* the exception that ended the run ("" when none)
    text,               \* history: the input the run was started on
    macros0,            \* history: the macro table the run was started with
    toks,               \* history: every token the Lexer handed out, in order, with
                        \* the delimiters in force when it was handed out
    lexed,              \* history: every byte the Lexer took from its iterator
    emitted,            \* history: every token the expansion loop gave to parse, with
                        \* the diversion in force and the sink's length at that moment
                        \* and its place among the tokens handed out
    calls,              \* history: the macro calls made, in order
    expect,             \* iterator runs: the items still to come, by the reference queue
    ops,                \* iterator runs: the calls made, with what each returned
    first               \* paired runs: the result of the first run

lexvars == <<iter, state, chars, nesting_level, start_quote, end_quote, lexpc, yielded>>
parvars == <<macros, current_diversion, diversions, stream, stack, pc, call, error>>
histvars == <<text, macros0, toks, lexed, emitted, calls, expect, ops, first>>
vars == <<lexvars, parvars, histvars>>

---------------------------------------------------------------------------
(* Bytes and byte strings *)

EOF == "<EOF>"
\* the byte 0x60, the default quote-start
BQ == "<BQ>"

Lower == {"a","b","c","d","e","f","g","h","i","j","k","l","m",
          "n","o","p","q","r","s","t","u","v","w","x","y","z"}
Upper == {"A","B","C","D","E","F","G","H","I","J","K","L","M",
          "N","O","P","Q","R","S","T","U","V","W","X","Y","Z"}
Digit == {"0","1","2","3","4","5","6","7","8","9"}
Space == {" ", "\t", "\n", "\r", "\f"}

isalpha(c) == c \in Lower \cup Upper
isalnum(c) == c \in Lower \cup Upper \cup Digit
\* bytes.isspace(): not empty and every byte is whitespace
isspace(v) == Len(v) > 0 /\ \A i \in 1..Len(v) : v[i] \in Space

\* bytearray.endswith(suffix)
endswith(l, e) ==
    Len(e) <= Len(l) /\ SubSeq(l, Len(l) - Len(e) + 1, Len(l)) = e

\* the slice l[a:-b] with a, b >= 0 (l[a:-0] is l[a:0], the empty string)
Slice(l, a, b) ==
    IF b = 0 \/ a + 1 > Len(l) - b THEN <<>> ELSE SubSeq(l, a + 1, Len(l) - b)

RECURSIVE Join(_)
\* b''.join(list)
Join(l) == IF l = <<>> THEN <<>> ELSE Head(l) \o Join(Tail(l))

Token(name, value) == [type |-> name, value |-> value]

\* a bug: the byte is taken twice
RawToken_doubled(c) == Token("RAW", <<c, c>>)

\* Token(bytes([c]), bytes([c])): a token whose type is its own byte
RawToken(c) == Token("RAW", <<c>>)

---------------------------------------------------------------------------
(* peek_insert_iter *)

NewIter(src) == [inserted |-> <<>>, peeked |-> <<>>, src |-> src]

\* __next__: the item returned, EOF standing for StopIteration
iter_next_value(it) ==
    IF it.inserted # <<>> THEN Head(it.inserted)
    ELSE IF it.peeked # <<>> THEN Head(it.peeked)
    ELSE IF it.src # <<>> THEN Head(it.src)
    ELSE EOF

\* __next__: the iterator afterwards
iter_next(it) ==
    IF it.inserted # <<>> THEN [it EXCEPT !.inserted = Tail(it.inserted)]
    ELSE IF it.peeked # <<>> THEN [it EXCEPT !.peeked = Tail(it.peeked)]
    ELSE IF it.src # <<>> THEN [it EXCEPT !.src = Tail(it.src)]
    ELSE it

\* a bug: the items are put behind what was inserted before
iter_insert_behind(it, items) == [it EXCEPT !.inserted = it.inserted \o items]

\* insert: self.inserted[0:0] = iterable
iter_insert(it, items) == [it EXCEPT !.inserted = items \o it.inserted]

\* _peek: pull one item of the source into self.peeked when it is empty
iter_fill(it) ==
    IF it.peeked = <<>> /\ it.src # <<>>
    THEN [it EXCEPT !.peeked = <<Head(it.src)>>, !.src = Tail(it.src)]
    ELSE it

\* peek: the iterator afterwards
iter_peek(it) == IF it.inserted # <<>> THEN it ELSE iter_fill(it)

\* a bug: peek looks at the source before it looks at what was inserted
iter_peek_value_behind(it) ==
    IF iter_fill(it).peeked # <<>> THEN Head(iter_fill(it).peeked)
    ELSE IF it.inserted # <<>> THEN Head(it.inserted)
    ELSE EOF

\* peek: the item returned
iter_peek_value(it) ==
    IF it.inserted # <<>> THEN Head(it.inserted)
    ELSE IF iter_fill(it).peeked # <<>> THEN Head(iter_fill(it).peeked)
    ELSE EOF

---------------------------------------------------------------------------
(* Lexer *)

\* Lexer.__init__: the default delimiters
DefaultStart == <<BQ>>
DefaultEnd == <<"'">>

\* _finish_token is Token(name, bytes(self.chars)) with self.chars emptied

\* the iterator after "c = self.iter.peek()" at the top of the loop
peeked_iter == iter_peek(iter)

\* a bug: the quote-start that opens a string does not set the nesting level
generic_level_unset(c) ==
    LET ch1 == IF c # EOF THEN Append(chars, iter_next_value(peeked_iter)) ELSE chars
        it1 == IF c # EOF THEN iter_next(peeked_iter) ELSE iter
        st1 == IF c = EOF THEN state
               ELSE IF isalpha(c) \/ c = "_" THEN "identifier"
               ELSE IF c = "#" THEN "comment"
               ELSE state
        st2 == IF ch1 = start_quote THEN "string" ELSE st1
    IN  [state |-> st2,
         chars |-> IF st2 = "generic" THEN <<>> ELSE ch1,
         nesting_level |-> nesting_level,
         iter |-> it1,
         tokens |-> IF st2 = "generic"
                    THEN [i \in 1..Len(ch1) |-> RawToken(ch1[i])]
                    ELSE <<>>,
         raises |-> ""]

\* _generic(c): [state, chars, nesting_level, iter, tokens, raises]
generic(c) ==
    LET ch1 == IF c # EOF THEN Append(chars, iter_next_value(peeked_iter)) ELSE chars
        it1 == IF c # EOF THEN iter_next(peeked_iter) ELSE iter
        st1 == IF c = EOF THEN state
               ELSE IF isalpha(c) \/ c = "_" THEN "identifier"
               ELSE IF c = "#" THEN "comment"
               ELSE state
        isq == ch1 = start_quote
        st2 == IF isq THEN "string" ELSE st1
    IN  [state |-> st2,
         chars |-> IF st2 = "generic" THEN <<>> ELSE ch1,
         nesting_level |-> IF isq THEN 1 ELSE nesting_level,
         iter |-> it1,
         tokens |-> IF st2 = "generic"
                    THEN [i \in 1..Len(ch1) |-> RawToken(ch1[i])]
                    ELSE <<>>,
         raises |-> ""]

\* a bug: a quote-start inside a string does not deepen the nesting
string_flat(c) ==
    LET ch1 == Append(chars, iter_next_value(peeked_iter))
        done == endswith(ch1, end_quote) /\ nesting_level = 1
    IN  IF c = EOF
        THEN [state |-> state, chars |-> chars, nesting_level |-> nesting_level,
              iter |-> peeked_iter, tokens |-> <<>>, raises |-> "RuntimeError"]
        ELSE [state |-> IF done THEN "generic" ELSE state,
              chars |-> IF done THEN <<>> ELSE ch1,
              nesting_level |-> IF done THEN 0 ELSE nesting_level,
              iter |-> iter_next(peeked_iter),
              tokens |-> IF done
                         THEN <<Token("STRING",
                                      Slice(ch1, Len(start_quote), Len(end_quote)))>>
                         ELSE <<>>,
              raises |-> ""]

\* _string(c); next(self.iter) at the end of input raises StopIteration inside
\* the generator, which Python turns into RuntimeError
string(c) ==
    LET ch1 == Append(chars, iter_next_value(peeked_iter))
        it1 == iter_next(peeked_iter)
        opens == start_quote # end_quote /\ endswith(ch1, start_quote)
        closes == ~opens /\ endswith(ch1, end_quote)
        nl == IF opens THEN nesting_level + 1
              ELSE IF closes THEN nesting_level - 1
              ELSE nesting_level
        done == closes /\ nl = 0
    IN  IF c = EOF
        THEN [state |-> state, chars |-> chars, nesting_level |-> nesting_level,
              iter |-> peeked_iter, tokens |-> <<>>, raises |-> "RuntimeError"]
        ELSE [state |-> IF done THEN "generic" ELSE state,
              chars |-> IF done THEN <<>> ELSE ch1,
              nesting_level |-> nl,
              iter |-> it1,
              tokens |-> IF done
                         THEN <<Token("STRING",
                                      Slice(ch1, Len(start_quote), Len(end_quote)))>>
                         ELSE <<>>,
              raises |-> ""]

\* a bug: a digit ends the identifier
identifier_letters(c) ==
    IF c = EOF \/ ~(isalpha(c) \/ c = "_")
    THEN [state |-> "generic", chars |-> <<>>, nesting_level |-> nesting_level,
          iter |-> peeked_iter, tokens |-> <<Token("IDENTIFIER", chars)>>, raises |-> ""]
    ELSE [state |-> state, chars |-> Append(chars, iter_next_value(peeked_iter)),
          nesting_level |-> nesting_level, iter |-> iter_next(peeked_iter),
          tokens |-> <<>>, raises |-> ""]

\* _identifier(c)
identifier(c) ==
    IF c = EOF \/ ~(isalnum(c) \/ c = "_")
    THEN [state |-> "generic", chars |-> <<>>, nesting_level |-> nesting_level,
          iter |-> peeked_iter, tokens |-> <<Token("IDENTIFIER", chars)>>, raises |-> ""]
    ELSE [state |-> state, chars |-> Append(chars, iter_next_value(peeked_iter)),
          nesting_level |-> nesting_level, iter |-> iter_next(peeked_iter),
          tokens |-> <<>>, raises |-> ""]

\* a bug: the comment state takes the newline that ends it
comment_eats_newline(c) ==
    IF c # EOF /\ c # "\n"
    THEN [state |-> state, chars |-> Append(chars, iter_next_value(peeked_iter)),
          nesting_level |-> nesting_level, iter |-> iter_next(peeked_iter),
          tokens |-> <<>>, raises |-> ""]
    ELSE [state |-> "generic", chars |-> <<>>, nesting_level |-> nesting_level,
          iter |-> IF c = EOF THEN peeked_iter ELSE iter_next(peeked_iter),
          tokens |-> <<Token("COMMENT", chars)>>, raises |-> ""]

\* a bug: only the end of input ends a comment
comment_to_eof(c) ==
    IF c # EOF
    THEN [state |-> state, chars |-> Append(chars, iter_next_value(peeked_iter)),
          nesting_level |-> nesting_level, iter |-> iter_next(peeked_iter),
          tokens |-> <<>>, raises |-> ""]
    ELSE [state |-> "generic", chars |-> <<>>, nesting_level |-> nesting_level,
          iter |-> peeked_iter, tokens |-> <<Token("COMMENT", chars)>>, raises |-> ""]

\* _comment(c)
comment(c) ==
    IF c # "\n" /\ c # EOF
    THEN [state |-> state, chars |-> Append(chars, iter_next_value(peeked_iter)),
          nesting_level |-> nesting_level, iter |-> iter_next(peeked_iter),
          tokens |-> <<>>, raises |-> ""]
    ELSE [state |-> "generic", chars |-> <<>>, nesting_level |-> nesting_level,
          iter |-> peeked_iter, tokens |-> <<Token("COMMENT", chars)>>, raises |-> ""]

\* _parse_internal after its loop: what is left in self.chars
AfterLoop(it, ch, st) ==
    IF ch # <<>>
    THEN IF st = "generic"
         THEN [iter |-> it, lexpc |-> "finished",
               yielded |-> [i \in 1..Len(ch) |-> RawToken(ch[i])]]
         ELSE [iter |-> it, lexpc |-> "ParseError", yielded |-> <<>>]
    ELSE [iter |-> it, lexpc |-> "finished", yielded |-> <<>>]

\* _parse_internal, the end of one turn of its loop: the tokens are yielded, and
\* "if c is EOF and self.iter.peek() is EOF: break" runs when the generator is
\* resumed after the last of them (at once when there is none)
LoopEnd(c, r) ==
    IF r.raises # ""
    THEN [iter |-> r.iter, lexpc |-> r.raises, yielded |-> <<>>]
    ELSE IF r.tokens # <<>>
    THEN [iter |-> r.iter, lexpc |-> IF c = EOF THEN "eofcheck" ELSE "loop",
          yielded |-> r.tokens]
    ELSE IF c = EOF /\ iter_peek_value(r.iter) = EOF
    THEN AfterLoop(iter_peek(r.iter), r.chars, r.state)
    ELSE [iter |-> IF c = EOF THEN iter_peek(r.iter) ELSE r.iter,
          lexpc |-> "loop", yielded |-> <<>>]

\* the generator runs only while its consumer waits in next() and no token of the
\* current turn is left to hand out
LexRuns == pc = "pull" /\ yielded = <<>>

\* one turn of the loop of _parse_internal in state st: c = self.iter.peek(),
\* tokens = self.state(c)
LexTurn(st, r) ==
    /\ LexRuns
    /\ lexpc = "loop"
    /\ state = st
    /\ LET c == iter_peek_value(iter)
           e == LoopEnd(c, r)
       IN  /\ state' = r.state
           /\ chars' = r.chars
           /\ nesting_level' = r.nesting_level
           /\ iter' = e.iter
           /\ lexpc' = e.lexpc
           /\ yielded' = e.yielded
           /\ lexed' = IF r.iter # peeked_iter THEN Append(lexed, c) ELSE lexed
    /\ UNCHANGED <<start_quote, end_quote>>
    /\ UNCHANGED parvars
    /\ UNCHANGED <<text, macros0, toks, emitted, calls, expect, ops, first>>

LexGeneric == LexTurn("generic", generic(iter_peek_value(iter)))

LexString == LexTurn("string", string(iter_peek_value(iter)))

LexIdentifier == LexTurn("identifier", identifier(iter_peek_value(iter)))

LexComment == LexTurn("comment", comment(iter_peek_value(iter)))

\* the generator is resumed after the token of a turn whose c was EOF: the break
\* test of the loop
LexEofCheck ==
    /\ LexRuns
    /\ lexpc = "eofcheck"
    /\ LET e == IF iter_peek_value(iter) = EOF
                THEN AfterLoop(iter_peek(iter), chars, state)
                ELSE [iter |-> iter_peek(iter), lexpc |-> "loop", yielded |-> <<>>]
       IN  /\ iter' = e.iter
           /\ lexpc' = e.lexpc
           /\ yielded' = e.yielded
    /\ UNCHANGED <<state, chars, nesting_level, start_quote, end_quote>>
    /\ UNCHANGED <<parvars, histvars>>

LexRaised == lexpc \in {"RuntimeError", "ParseError"}

LexNext == LexGeneric \/ LexString \/ LexIdentifier \/ LexComment \/ LexEofCheck

---------------------------------------------------------------------------
(* Parser *)

W_define == <<"d","e","f","i","n","e">>
W_dnl == <<"d","n","l">>
W_changequote == <<"c","h","a","n","g","e","q","u","o","t","e">>
W_divert == <<"d","i","v","e","r","t">>

\* a macro of the table: a builtin, or the closure define() makes around body
Builtin(k) == [kind |-> k, body |-> <<>>]
UserDefined(body) == [kind |-> "user", body |-> body]

\* Parser.__init__: self.macros
Builtins ==
    [n \in {W_define, W_dnl, W_changequote, W_divert} |->
        IF n = W_define THEN Builtin("define")
        ELSE IF n = W_dnl THEN Builtin("dnl")
        ELSE IF n = W_changequote THEN Builtin("changequote")
        ELSE Builtin("divert")]

\* Parser.define(name, body): self.macros[name] = lambda x: substmacro(name, body, x)
define(table, name, body) ==
    [n \in DOMAIN table \cup {name} |->
        IF n = name THEN UserDefined(body) ELSE table[n]]

\* a bug: the arguments follow the body
substmacro_with_args(name, body, args) == body \o Join(args)

\* substmacro(name, body, args)
substmacro(name, body, args) == body

DigitValue(c) ==
    CASE c = "0" -> 0 [] c = "1" -> 1 [] c = "2" -> 2 [] c = "3" -> 3 [] c = "4" -> 4
      [] c = "5" -> 5 [] c = "6" -> 6 [] c = "7" -> 7 [] c = "8" -> 8 [] c = "9" -> 9

RECURSIVE Strip(_)
\* bytes.strip(): whitespace removed at both ends
Strip(v) ==
    IF v = <<>> THEN v
    ELSE IF Head(v) \in Space THEN Strip(Tail(v))
    ELSE IF v[Len(v)] \in Space THEN Strip(SubSeq(v, 1, Len(v) - 1))
    ELSE v

RECURSIVE Digits(_, _, _)
\* the digits of an int() literal, single underscores allowed between digits:
\* [ok, val]; acc is the value so far, after whether a digit came last
Digits(v, acc, after) ==
    IF v = <<>> THEN [ok |-> after, val |-> acc]
    ELSE IF Head(v) \in Digit THEN Digits(Tail(v), 10 * acc + DigitValue(Head(v)), TRUE)
    ELSE IF Head(v) = "_" /\ after THEN Digits(Tail(v), acc, FALSE)
    ELSE [ok |-> FALSE, val |-> 0]

\* int(v) of a byte string: [ok, val], ok false standing for ValueError
int(v) ==
    LET s == Strip(v)
        signed == s # <<>> /\ Head(s) \in {"+", "-"}
        d == Digits(IF signed THEN Tail(s) ELSE s, 0, FALSE)
    IN  IF s = <<>> THEN [ok |-> FALSE, val |-> 0]
        ELSE [ok |-> d.ok, val |-> IF signed /\ Head(s) = "-" THEN 0 - d.val ELSE d.val]

NoCall == [name |-> <<>>, bare |-> TRUE, fn |-> Builtin("none"), args |-> <<>>]

\* an active call of _parse_args (with the macro it collects the arguments of,
\* looked up before the arguments are parsed) or of _builtin_dnl
ArgsFrame(name, fn) ==
    [kind |-> "args", name |-> name, fn |-> fn, stage |-> "paren", args |-> <<>>,
     current_arg |-> <<>>, nesting_level |-> 0]
DnlFrame ==
    [kind |-> "dnl", name |-> W_dnl, fn |-> Builtin("dnl"), stage |-> "eat",
     args |-> <<>>, current_arg |-> <<>>, nesting_level |-> 0]

\* the innermost running loop of _expand_tokens is waiting for a token
InLoop ==
    IF stack = <<>> THEN TRUE
    ELSE Head(stack).kind = "args" /\ Head(stack).stage = "scan"

\* a bug: the type of the token is not looked at
IsMacro_any_type(tok) == tok.value \in DOMAIN macros

\* the test of _expand_tokens
IsMacro(tok) == tok.type = "IDENTIFIER" /\ tok.value \in DOMAIN macros

\* next(self.token_iter) returns the token the generator yields
Arrives == pc = "pull" /\ yielded # <<>>
\* next(self.token_iter) finds the generator finished
Finished == pc = "pull" /\ yielded = <<>> /\ lexpc = "finished"

Take ==
    /\ yielded' = Tail(yielded)
    /\ toks' = Append(toks, [type |-> Head(yielded).type, value |-> Head(yielded).value,
                             sq |-> start_quote, eq |-> end_quote])

\* _expand_tokens meets a macro name; _parse_args begins: peek_char
MacroCall ==
    /\ Arrives
    /\ InLoop
    /\ IsMacro(Head(yielded))
    /\ Take
    /\ iter' = iter_peek(iter)
    /\ IF iter_peek_value(iter) = "("
       THEN /\ stack' = <<ArgsFrame(Head(yielded).value, macros[Head(yielded).value])>>
                        \o stack
            /\ UNCHANGED <<pc, call>>
       ELSE /\ call' = [name |-> Head(yielded).value, bare |-> TRUE,
                        fn |-> macros[Head(yielded).value], args |-> <<>>]
            /\ pc' = "invoke"
            /\ UNCHANGED stack
    /\ UNCHANGED <<state, chars, nesting_level, start_quote, end_quote, lexpc>>
    /\ UNCHANGED <<macros, current_diversion, diversions, stream, error>>
    /\ UNCHANGED <<text, macros0, lexed, emitted, calls, expect, ops, first>>

\* _parse_args: "tok = next(self.token_iter)", the token that must be "("
DropParen ==
    /\ Arrives
    /\ stack # <<>> /\ Head(stack).kind = "args" /\ Head(stack).stage = "paren"
    /\ Take
    /\ IF Head(yielded).value # <<"(">>
       THEN /\ pc' = "error"
            /\ error' = "ParseError"
            /\ UNCHANGED stack
       ELSE /\ stack' = <<[Head(stack) EXCEPT !.stage = "scan", !.nesting_level = 1]>>
                        \o Tail(stack)
            /\ UNCHANGED <<pc, error>>
    /\ UNCHANGED <<iter, state, chars, nesting_level, start_quote, end_quote, lexpc>>
    /\ UNCHANGED <<macros, current_diversion, diversions, stream, call>>
    /\ UNCHANGED <<text, macros0, lexed, emitted, calls, expect, ops, first>>

\* a bug: every whitespace token is dropped, wherever it stands
parse_args_step_no_blanks(f, v) ==
    LET closing == v = <<",">> \/ v = <<")">>
    IN  [f EXCEPT
           !.nesting_level = IF v = <<"(">> THEN @ + 1
                             ELSE IF v = <<")">> THEN @ - 1
                             ELSE @,
           !.args = IF v # <<"(">> /\ closing THEN Append(@, Join(f.current_arg)) ELSE @,
           !.current_arg = IF v = <<"(">> THEN @
                           ELSE IF closing THEN <<>>
                           ELSE IF ~isspace(v) THEN Append(@, v)
                           ELSE @]

\* _parse_args: the body of "for tok in self._expand_tokens()" on one token:
\* the frame afterwards
parse_args_step(f, v) ==
    LET closing == v = <<",">> \/ v = <<")">>
    IN  [f EXCEPT
           !.nesting_level = IF v = <<"(">> THEN @ + 1
                             ELSE IF v = <<")">> THEN @ - 1
                             ELSE @,
           !.args = IF v # <<"(">> /\ closing THEN Append(@, Join(f.current_arg)) ELSE @,
           !.current_arg = IF v = <<"(">> THEN @
                           ELSE IF closing THEN <<>>
                           ELSE IF @ # <<>> \/ ~isspace(v) THEN Append(@, v)
                           ELSE @]

\* a bug: a macro name inside an argument list may be taken as text
ArgToken_unexpanded ==
    /\ Arrives
    /\ stack # <<>> /\ Head(stack).kind = "args" /\ Head(stack).stage = "scan"
    /\ Take
    /\ LET f == parse_args_step(Head(stack), Head(yielded).value)
       IN  IF Head(yielded).value = <<")">> /\ f.nesting_level = 0
           THEN /\ stack' = Tail(stack)
                /\ call' = [name |-> f.name, bare |-> FALSE, fn |-> f.fn, args |-> f.args]
                /\ pc' = "invoke"
           ELSE /\ stack' = <<f>> \o Tail(stack)
                /\ UNCHANGED <<pc, call>>
    /\ UNCHANGED <<iter, state, chars, nesting_level, start_quote, end_quote, lexpc>>
    /\ UNCHANGED <<macros, current_diversion, diversions, stream, error>>
    /\ UNCHANGED <<text, macros0, lexed, emitted, calls, expect, ops, first>>

\* _parse_args takes a token its loop of _expand_tokens yields
ArgToken ==
    /\ Arrives
    /\ stack # <<>> /\ Head(stack).kind = "args" /\ Head(stack).stage = "scan"
    /\ ~IsMacro(Head(yielded))
    /\ Take
    /\ LET f == parse_args_step(Head(stack), Head(yielded).value)
       IN  IF Head(yielded).value = <<")">> /\ f.nesting_level = 0
           THEN /\ stack' = Tail(stack)
                /\ call' = [name |-> f.name, bare |-> FALSE, fn |-> f.fn, args |-> f.args]
                /\ pc' = "invoke"
           ELSE /\ stack' = <<f>> \o Tail(stack)
                /\ UNCHANGED <<pc, call>>
    /\ UNCHANGED <<iter, state, chars, nesting_level, start_quote, end_quote, lexpc>>
    /\ UNCHANGED <<macros, current_diversion, diversions, stream, error>>
    /\ UNCHANGED <<text, macros0, lexed, emitted, calls, expect, ops, first>>

\* _parse_args: the loop ends because the tokens ran out; the arguments closed
\* so far are returned and the macro is called
ArgsEnd ==
    /\ Finished
    /\ stack # <<>> /\ Head(stack).kind = "args" /\ Head(stack).stage = "scan"
    /\ stack' = Tail(stack)
    /\ call' = [name |-> Head(stack).name, bare |-> FALSE,
                 fn |-> Head(stack).fn, args |-> Head(stack).args]
    /\ pc' = "invoke"
    /\ UNCHANGED lexvars
    /\ UNCHANGED <<macros, current_diversion, diversions, stream, error>>
    /\ UNCHANGED histvars

\* _parse_args: next(self.token_iter) for the "(" raises StopIteration, inside
\* the generator _expand_tokens
ParenEnd ==
    /\ Finished
    /\ stack # <<>> /\ Head(stack).kind = "args" /\ Head(stack).stage = "paren"
    /\ pc' = "error"
    /\ error' = "RuntimeError"
    /\ UNCHANGED lexvars
    /\ UNCHANGED <<macros, current_diversion, diversions, stream, stack, call>>
    /\ UNCHANGED histvars

\* the write of Parser.parse for one token value at diversion d
write(d, v) ==
    /\ stream' = IF d = 0 THEN stream \o v ELSE stream
    /\ diversions' =
         IF d > 0
         THEN [k \in DOMAIN diversions \cup {d} |->
                 IF k = d
                 THEN Append(IF d \in DOMAIN diversions THEN diversions[d] ELSE <<>>, v)
                 ELSE diversions[k]]
         ELSE diversions

\* Parser.parse: the body of "for tok in self._expand_tokens()"
ParseWrite ==
    /\ Arrives
    /\ stack = <<>>
    /\ ~IsMacro(Head(yielded))
    /\ Take
    /\ write(current_diversion, Head(yielded).value)
    /\ emitted' = Append(emitted, [div |-> current_diversion,
                                   value |-> Head(yielded).value,
                                   at |-> Len(stream), after |-> Len(calls),
                                   tok |-> Len(toks) + 1])
    /\ UNCHANGED <<iter, state, chars, nesting_level, start_quote, end_quote, lexpc>>
    /\ UNCHANGED <<macros, current_diversion, stack, pc, call, error>>
    /\ UNCHANGED <<text, macros0, lexed, calls, expect, ops, first>>

Min(S) == CHOOSE m \in S : \A k \in S : m <= k

Max(S) == CHOOSE m \in S : \A k \in S : m >= k

RECURSIVE flush_descending(_, _)
\* a bug: the highest diversion is written first
flush_descending(divs, K) ==
    IF K = {} THEN <<>>
    ELSE LET d == Max(K)
         IN  (IF d < 1 THEN <<>> ELSE Join(divs[d])) \o flush_descending(divs, K \ {d})

RECURSIVE flush(_, _)
\* Parser.parse: "for diversion in sorted(self.diversions.keys())": what is
\* written for the keys K still to visit
flush(divs, K) ==
    IF K = {} THEN <<>>
    ELSE LET d == Min(K)
         IN  (IF d < 1 THEN <<>> ELSE Join(divs[d])) \o flush(divs, K \ {d})

\* Parser.parse: the tokens ran out; the diversions are flushed
ParseEnd ==
    /\ Finished
    /\ stack = <<>>
    /\ stream' = stream \o flush(diversions, DOMAIN diversions)
    /\ diversions' = [k \in DOMAIN diversions |->
                        IF k < 1 THEN diversions[k] ELSE <<>>]
    /\ pc' = "done"
    /\ UNCHANGED lexvars
    /\ UNCHANGED <<macros, current_diversion, stack, call, error>>
    /\ UNCHANGED histvars

\* _builtin_dnl: one token of "for tok in self.token_iter"
\* a bug: the newline does not end the loop
DnlEat_past_newline ==
    /\ Arrives
    /\ stack # <<>> /\ Head(stack).kind = "dnl"
    /\ Take
    /\ UNCHANGED stack
    /\ UNCHANGED <<iter, state, chars, nesting_level, start_quote, end_quote, lexpc>>
    /\ UNCHANGED <<macros, current_diversion, diversions, stream, pc, call, error>>
    /\ UNCHANGED <<text, macros0, lexed, emitted, calls, expect, ops, first>>

\* a bug: only a RAW newline ends the loop
DnlEat_raw_newline ==
    /\ Arrives
    /\ stack # <<>> /\ Head(stack).kind = "dnl"
    /\ Take
    /\ stack' = IF Head(yielded).value = <<"\n">> /\ Head(yielded).type = "RAW"
                 THEN Tail(stack) ELSE stack
    /\ UNCHANGED <<iter, state, chars, nesting_level, start_quote, end_quote, lexpc>>
    /\ UNCHANGED <<macros, current_diversion, diversions, stream, pc, call, error>>
    /\ UNCHANGED <<text, macros0, lexed, emitted, calls, expect, ops, first>>

DnlEat ==
    /\ Arrives
    /\ stack # <<>> /\ Head(stack).kind = "dnl"
    /\ Take
    /\ stack' = IF Head(yielded).value = <<"\n">> THEN Tail(stack) ELSE stack
    /\ UNCHANGED <<iter, state, chars, nesting_level, start_quote, end_quote, lexpc>>
    /\ UNCHANGED <<macros, current_diversion, diversions, stream, pc, call, error>>
    /\ UNCHANGED <<text, macros0, lexed, emitted, calls, expect, ops, first>>

\* _builtin_dnl: the tokens ran out before a newline
DnlEnd ==
    /\ Finished
    /\ stack # <<>> /\ Head(stack).kind = "dnl"
    /\ stack' = Tail(stack)
    /\ UNCHANGED lexvars
    /\ UNCHANGED <<macros, current_diversion, diversions, stream, pc, call, error>>
    /\ UNCHANGED histvars

\* the call self.macros[tok.value](args) of _expand_tokens
Invoke(k) == pc = "invoke" /\ call.fn.kind = k

\* the call returns; the history gains the call, the depth of _parse_args it
\* was made at, the number of tokens handed out so far and whether the tokens
\* had run out
Return ==
    /\ pc' = "pull"
    /\ call' = NoCall
    /\ calls' = Append(calls, [name |-> call.name, kind |-> call.fn.kind,
                               args |-> call.args, bare |-> call.bare,
                               depth |-> Len(stack), at |-> Len(toks),
                               eof |-> lexpc = "finished"])
    /\ UNCHANGED <<text, macros0, toks, lexed, emitted, expect, ops, first>>

\* _builtin_define
BuiltinDefine ==
    /\ Invoke("define")
    /\ macros' = IF call.args # <<>>
                 THEN define(macros, call.args[1],
                             IF Len(call.args) >= 2 THEN call.args[2] ELSE <<>>)
                 ELSE macros
    /\ Return
    /\ UNCHANGED lexvars
    /\ UNCHANGED <<current_diversion, diversions, stream, stack, error>>

\* _builtin_dnl begins
BuiltinDnl ==
    /\ Invoke("dnl")
    /\ stack' = <<DnlFrame>> \o stack
    /\ Return
    /\ UNCHANGED lexvars
    /\ UNCHANGED <<macros, current_diversion, diversions, stream, error>>

\* Lexer.changequote(*args[:2]): the delimiters afterwards
changequote(args) ==
    [start_quote |-> IF Len(args) >= 1 THEN args[1] ELSE DefaultStart,
     end_quote |-> IF Len(args) >= 2 THEN args[2] ELSE DefaultEnd]

\* _builtin_changequote
BuiltinChangequote ==
    /\ Invoke("changequote")
    /\ start_quote' = changequote(call.args).start_quote
    /\ end_quote' = changequote(call.args).end_quote
    /\ Return
    /\ UNCHANGED <<iter, state, chars, nesting_level, lexpc, yielded>>
    /\ UNCHANGED <<macros, current_diversion, diversions, stream, stack, error>>

\* a bug: an argument that is no number resets the diversion
divert_or_reset(cur, args) ==
    IF args = <<>> THEN 0
    ELSE IF int(args[1]).ok THEN int(args[1]).val
    ELSE 0

\* a bug: an argument that is no number discards what follows
divert_or_discard(cur, args) ==
    IF args = <<>> THEN 0
    ELSE IF int(args[1]).ok THEN int(args[1]).val
    ELSE 0 - 1

\* _builtin_divert(args): the current diversion afterwards
divert(cur, args) ==
    IF args = <<>> THEN 0
    ELSE IF int(args[1]).ok THEN int(args[1]).val
    ELSE cur

\* _builtin_divert
BuiltinDivert ==
    /\ Invoke("divert")
    /\ current_diversion' = divert(current_diversion, call.args)
    /\ Return
    /\ UNCHANGED lexvars
    /\ UNCHANGED <<macros, diversions, stream, stack, error>>

\* a bug: what the macro returns is not spliced
splice_dropped(it, result) == it

\* a macro made by define is called; _expand_tokens splices what it returns:
\* "if result: self.lexer.insert_text(result)"
splice(it, result) == IF result # <<>> THEN iter_insert(it, result) ELSE it

UserMacro ==
    /\ Invoke("user")
    /\ iter' = splice(iter, substmacro(<<>>, call.fn.body, call.args))
    /\ Return
    /\ UNCHANGED <<state, chars, nesting_level, start_quote, end_quote, lexpc, yielded>>
    /\ UNCHANGED <<macros, current_diversion, diversions, stream, stack, error>>

\* an exception of the Lexer reaches the caller of Parser.parse
Propagate ==
    /\ pc = "pull"
    /\ yielded = <<>>
    /\ LexRaised
    /\ pc' = "error"
    /\ error' = lexpc
    /\ UNCHANGED lexvars
    /\ UNCHANGED <<macros, current_diversion, diversions, stream, stack, call>>
    /\ UNCHANGED histvars

\* ParenEnd is left out: peek_char has just seen "(", which the generator, alive
\* whenever a token arrives, cannot fail to lex
ParserNext ==
    \/ MacroCall \/ DropParen \/ ArgToken \/ ArgsEnd
    \/ ParseWrite \/ ParseEnd \/ DnlEat \/ DnlEnd
    \/ BuiltinDefine \/ BuiltinDnl \/ BuiltinChangequote \/ BuiltinDivert
    \/ UserMacro \/ Propagate

---------------------------------------------------------------------------
(* Runs of Parser(text).parse(stream) *)

NoResult ==
    [stream |-> <<>>, macros |-> Builtins, error |-> "", toks |-> <<>>, calls |-> <<>>,
     text |-> <<>>, set |-> FALSE]

\* a run on an input of Texts: Parser(text), then define() for a table of Tables
\* and changequote() for a pair of Quotes, as the tests do before parse()
InitRun(p, Texts, Tables, Quotes) ==
    /\ pc = p
    /\ text \in Texts
    /\ macros0 \in Tables
    /\ \E q \in Quotes : start_quote = q[1] /\ end_quote = q[2]
    /\ iter = NewIter(text)
    /\ state = "generic"
    /\ chars = <<>>
    /\ nesting_level = 0
    /\ lexpc = "loop"
    /\ yielded = <<>>
    /\ macros = macros0
    /\ current_diversion = 0
    /\ diversions = <<>>
    /\ stream = <<>>
    /\ stack = <<>>
    /\ call = NoCall
    /\ error = ""
    /\ toks = <<>>
    /\ lexed = <<>>
    /\ emitted = <<>>
    /\ calls = <<>>
    /\ expect = text
    /\ ops = <<>>
    /\ first = NoResult

InitParser(Texts, Tables, Quotes) == InitRun("pull", Texts, Tables, Quotes)

LP == <<"(">>
RP == <<")">>
CM == <<",">>
SP == <<" ">>
NL == <<"\n">>
W_abc == <<"a","b","c">>
W_xyz == <<"x","y","z">>
W_foo == <<"f","o","o">>
W_bar == <<"b","a","r">>

DefaultQuotes == <<DefaultStart, DefaultEnd>>
Brackets == <<(<<"[">>), (<<"]">>)>>

\* the inputs of ParserTests and of the scenarios of the specification
Scenarios ==
    { W_abc,
      <<BQ, "'">>,
      W_define \o LP \o SP \o W_abc \o CM \o SP \o W_xyz \o RP \o W_abc,
      <<BQ>> \o W_abc \o <<"'", "[">> \o W_xyz \o <<"]">>,
      W_foo \o LP \o W_abc \o LP \o W_xyz \o RP \o W_abc \o RP,
      W_dnl \o SP \o <<"x">> \o NL \o <<"k">>,
      W_divert \o LP \o <<"1">> \o RP \o <<"a", " ">> \o W_divert \o LP \o <<"0">>
          \o RP \o <<"b", " ">> \o W_divert \o LP \o <<"1">> \o RP \o <<"c">>,
      W_changequote \o LP \o <<"[", ",", "]">> \o RP \o <<BQ, "a", "'", "[", "x", "]">>,
      <<"#", " ", "c">> \o NL \o W_foo,
      <<BQ, "a">>,
      W_foo \o LP \o <<"a">>,
      W_dnl \o SP \o <<"x">> }

FooBar == define(Builtins, W_foo, W_bar)

Init == InitParser(Scenarios, {Builtins, FooBar}, {DefaultQuotes, Brackets})

Next == LexNext \/ ParserNext

Spec == Init /\ [][Next]_vars

---------------------------------------------------------------------------
(* Runs of peek_insert_iter alone, as in IterTests *)

MaxOps == 5
MaxSource == 3

Items == <<"1", "2", "3", "4">>
Sources == {SubSeq(Items, 1, n) : n \in 0..MaxSource}
Inserts == {<<>>, <<"x">>, <<"y", "z">>}

IterInit == InitRun("iter", Sources, {Builtins}, {DefaultQuotes})

IterCall(op, value, it, queue) ==
    /\ pc = "iter"
    /\ Len(ops) < MaxOps
    /\ iter' = it
    /\ expect' = queue
    /\ ops' = Append(ops, [op |-> op, ret |-> value,
                           head |-> IF expect = <<>> THEN EOF ELSE Head(expect)])
    /\ UNCHANGED <<state, chars, nesting_level, start_quote, end_quote, lexpc, yielded>>
    /\ UNCHANGED parvars
    /\ UNCHANGED <<text, macros0, toks, lexed, emitted, calls, first>>

\* next(i); the reference queue loses its head
IterNext ==
    IterCall("next", iter_next_value(iter), iter_next(iter),
             IF expect = <<>> THEN expect ELSE Tail(expect))

\* i.peek(); the reference queue is not touched
IterPeek == IterCall("peek", iter_peek_value(iter), iter_peek(iter), expect)

\* i.insert(items); the reference queue gets the items in front
IterInsert ==
    \E items \in Inserts :
        IterCall("insert", EOF, iter_insert(iter, items), items \o expect)

IterStep == IterNext \/ IterPeek \/ IterInsert

SpecIter == IterInit /\ [][IterStep]_vars

---------------------------------------------------------------------------
(* Runs of list(Lexer(text).parse()), as in LexerTests *)

MaxLexLen == 4

LexBytes == {"a", "1", "#", "\n", BQ, "'"}
LexTexts == UNION {[1..n -> LexBytes] : n \in 0..MaxLexLen}
SameQuotes == <<(<<"'">>), (<<"'">>)>>
SwappedQuotes == <<(<<"'">>), (<<BQ>>)>>

LexInit == InitRun("pull", LexTexts, {Builtins}, {DefaultQuotes, SameQuotes, SwappedQuotes})

\* list() takes the next token
ListTake ==
    /\ Arrives
    /\ Take
    /\ UNCHANGED <<iter, state, chars, nesting_level, start_quote, end_quote, lexpc>>
    /\ UNCHANGED parvars
    /\ UNCHANGED <<text, macros0, lexed, emitted, calls, expect, ops, first>>

\* list() meets StopIteration
ListEnd ==
    /\ Finished
    /\ pc' = "done"
    /\ UNCHANGED lexvars
    /\ UNCHANGED <<macros, current_diversion, diversions, stream, stack, call, error>>
    /\ UNCHANGED histvars

LexerNext == LexNext \/ ListTake \/ ListEnd \/ Propagate

SpecLex == LexInit /\ [][LexerNext]_vars

---------------------------------------------------------------------------
(* The claims about peek_insert_iter (checked under SpecIter) *)

\* C6: after any sequence of insert, peek and next calls, the items next will
\* return are those of the most recent insert, then the rest of the earlier
\* inserts, then the source (the reference queue); every next returned the head
\* of that queue, every peek returned the item the next call of next returns
\* (EOF when there is none), and peek left the queue as it was.
C6_IterOrder ==
    /\ iter.inserted \o iter.peeked \o iter.src = expect
    /\ \A i \in 1..Len(ops) :
          ops[i].op \in {"next", "peek"} => ops[i].ret = ops[i].head

\* a source item was peeked, then items were inserted, and next returned the
\* inserted item while the peeked one waits; another insert came after the
\* source had run out
C6_Witness ==
    /\ Len(ops) >= 3
    /\ \E i, j, k \in 1..Len(ops) :
          /\ i < j /\ j < k
          /\ ops[i].op = "peek" /\ ops[i].ret = "1"
          /\ ops[j].op = "insert"
          /\ ops[k].op = "next" /\ ops[k].ret \in {"x", "y"}
    /\ iter.peeked # <<>>

---------------------------------------------------------------------------
(* The claims about the Lexer alone (checked under SpecLex) *)

\* a token as it stood in the input: a STRING inside its delimiters
Restore(tok) ==
    IF tok.type = "STRING" THEN start_quote \o tok.value \o end_quote ELSE tok.value

Restored(ts) == Join([i \in 1..Len(ts) |-> Restore(ts[i])])

\* C3: with fixed delimiters and no insert_text, the values of the tokens, each
\* STRING put back inside its delimiters, are the input read so far, byte for
\* byte: together with the bytes still buffered and the bytes not yet read they
\* make up the input, and a drained Lexer has turned the whole input into tokens.
C3_RoundTrip ==
    /\ Restored(toks \o yielded) \o chars \o iter.inserted \o iter.peeked \o iter.src
         = text
    /\ pc = "done" => Restored(toks) = text

\* a drained input with a quoted string and other tokens around it
C3_Witness ==
    /\ pc = "done"
    /\ \E i \in 1..Len(toks) : toks[i].type = "STRING" /\ toks[i].value # <<>>
    /\ \E i \in 1..Len(toks) : toks[i].type = "COMMENT"

\* the number of bytes b among s[i..j]
Count(s, b, i, j) == Cardinality({k \in i..j : s[k] = b})

\* where token i begins in the input
StartsAt(i) == Len(Restored(SubSeq(toks, 1, i - 1))) + 1

DistinctSingleQuotes ==
    Len(start_quote) = 1 /\ Len(end_quote) = 1 /\ start_quote # end_quote

\* C10: with distinct single-byte delimiters every STRING token begins at a
\* quote-start and ends at the first quote-end where as many quote-ends as
\* quote-starts have been seen since; its value is every byte in between,
\* nested delimiters included; a string still open has not met such a quote-end.
C10_NestedQuotes ==
    DistinctSingleQuotes =>
        /\ \A i \in 1..Len(toks) :
              toks[i].type = "STRING" =>
                  LET s == StartsAt(i)
                      e == s + Len(toks[i].value) + 1
                  IN  /\ e <= Len(text)
                      /\ text[s] = start_quote[1]
                      /\ text[e] = end_quote[1]
                      /\ Count(text, start_quote[1], s, e)
                           = Count(text, end_quote[1], s, e)
                      /\ \A j \in s..(e - 1) :
                            Count(text, end_quote[1], s, j)
                              < Count(text, start_quote[1], s, j)
                      /\ toks[i].value = SubSeq(text, s + 1, e - 1)
        /\ state = "string" =>
              \A j \in 1..Len(chars) :
                  Count(chars, end_quote[1], 1, j) < Count(chars, start_quote[1], 1, j)

\* a STRING token whose value holds a nested quoted string
C10_Witness ==
    /\ DistinctSingleQuotes
    /\ \E i \in 1..Len(toks) :
          /\ toks[i].type = "STRING"
          /\ Count(toks[i].value, start_quote[1], 1, Len(toks[i].value)) >= 1
          /\ Count(toks[i].value, end_quote[1], 1, Len(toks[i].value)) >= 1

---------------------------------------------------------------------------
(* Runs of Parser.parse on plain text: macro names, other words, blanks and
   parentheses, with macros made by define() or by a define call in the text *)

MaxPlain == 4

W_a == <<"a">>
W_b == <<"b">>
W_c == <<"c">>
Body == <<"x", "1">>

PlainBytes == {"a", "x", " ", "(", ")"}
PlainTexts ==
    UNION {[1..n -> PlainBytes] : n \in 0..MaxPlain}
      \cup { <<"a", "(", "x", ",", "(", "x", ")", ",", "x", ")", "a", " ", "a">>,
             <<"a", "(", "a", "(", "x", ")", ")", "1", "a", "(", ")", ".">> }

\* define(b'a', b'x1')
OneMacro == define(Builtins, W_a, Body)
\* a is b, b is c, c is text
Chain == define(define(define(Builtins, W_a, W_b), W_b, W_c), W_c, <<"x", " ", "1">>)
\* a calls b with an argument list of its own
ChainArgs == define(define(Builtins, W_a, <<"b", "(", "y", ")">>), W_b, <<"1", "x">>)

\* the text define(name,body)
DefineCall(name, body) == W_define \o LP \o name \o CM \o body \o RP

DefinedTexts ==
    { DefineCall(W_a, Body) \o t :
        t \in {<<"a">>, <<"a", "(", ")", "a">>, <<"a", "(", "x", ")", " ", "a", "x">>} }
      \cup { W_define \o LP \o W_a \o RP \o <<"x", "a", "(", "x", ")", "a", "x">>,
             DefineCall(W_a, W_b) \o DefineCall(W_b, W_c) \o <<"a", " ", "b">> }

PlainInit ==
    \/ InitParser(PlainTexts, {OneMacro, Chain, ChainArgs}, {DefaultQuotes})
    \/ InitParser(DefinedTexts \cup Scenarios, {Builtins}, {DefaultQuotes, Brackets})

SpecPlain == PlainInit /\ [][Next]_vars

---------------------------------------------------------------------------
(* What m4 makes of plain text, written down independently of the Lexer and
   the Parser *)

IsIdStart(c) == isalpha(c) \/ c = "_"
IsIdByte(c) == isalnum(c) \/ c = "_"

RECURSIVE RunLen(_)
\* the length of the longest run of identifier bytes s begins with
RunLen(s) == IF s = <<>> \/ ~IsIdByte(Head(s)) THEN 0 ELSE 1 + RunLen(Tail(s))

RECURSIVE Idents(_)
\* the identifiers of s: the maximal runs of identifier bytes that begin with
\* a letter or an underscore
Idents(s) ==
    IF s = <<>> THEN {}
    ELSE IF IsIdStart(Head(s))
         THEN {SubSeq(s, 1, RunLen(s))} \cup Idents(SubSeq(s, RunLen(s) + 1, Len(s)))
         ELSE Idents(Tail(s))

RECURSIVE Closing(_, _, _)
\* the index of the ")" that closes the "(" s begins with (0 when there is none)
Closing(s, i, depth) ==
    IF i > Len(s) THEN 0
    ELSE IF s[i] = "(" THEN Closing(s, i + 1, depth + 1)
    ELSE IF s[i] = ")" THEN (IF depth = 1 THEN i ELSE Closing(s, i + 1, depth - 1))
    ELSE Closing(s, i + 1, depth)

\* what follows the argument list s begins with
AfterArgs(s) == SubSeq(s, Closing(s, 1, 0) + 1, Len(s))
HasArgs(s) == s # <<>> /\ Head(s) = "("

Emit(v, res) == [out |-> v \o res.out, ok |-> res.ok]

RECURSIVE Rescan(_, _)
\* m4 on s with the bodies tb: an identifier that names a macro, with the
\* balanced argument list that follows it directly, gives way to the body, and
\* reading goes on at the first byte of the body; ok is FALSE when an argument
\* list is not closed
Rescan(s, tb) ==
    IF s = <<>> THEN [out |-> <<>>, ok |-> TRUE]
    ELSE IF ~IsIdStart(Head(s)) THEN Emit(<<Head(s)>>, Rescan(Tail(s), tb))
    ELSE LET id == SubSeq(s, 1, RunLen(s))
             r == SubSeq(s, RunLen(s) + 1, Len(s))
         IN  IF id \notin DOMAIN tb THEN Emit(id, Rescan(r, tb))
             ELSE IF ~HasArgs(r) THEN Rescan(tb[id] \o r, tb)
             ELSE IF Closing(r, 1, 0) = 0 THEN [out |-> <<>>, ok |-> FALSE]
             ELSE Rescan(tb[id] \o AfterArgs(r), tb)

RECURSIVE Replaced(_, _)
\* s with every identifier that names a macro, and the balanced argument list
\* that follows it directly, replaced by the body and nothing else done
Replaced(s, tb) ==
    IF s = <<>> THEN [out |-> <<>>, ok |-> TRUE]
    ELSE IF ~IsIdStart(Head(s)) THEN Emit(<<Head(s)>>, Replaced(Tail(s), tb))
    ELSE LET id == SubSeq(s, 1, RunLen(s))
             r == SubSeq(s, RunLen(s) + 1, Len(s))
         IN  IF id \notin DOMAIN tb THEN Emit(id, Replaced(r, tb))
             ELSE IF ~HasArgs(r) THEN Emit(tb[id], Replaced(r, tb))
             ELSE IF Closing(r, 1, 0) = 0 THEN [out |-> <<>>, ok |-> FALSE]
             ELSE Emit(tb[id], Replaced(AfterArgs(r), tb))

\* the bodies of the macros of a table that define made
Bodies(table) == [n \in {m \in DOMAIN table : table[m].kind = "user"} |-> table[n].body]

HasPrefix(s, pre) == Len(pre) <= Len(s) /\ SubSeq(s, 1, Len(pre)) = pre

\* the macro a the run is given, by define() before parse or by a define
\* call the text begins with, and the text that is processed with it
Given ==
    IF macros0 # Builtins THEN [tb |-> Bodies(macros0), rest |-> text, ok |-> TRUE]
    ELSE IF HasPrefix(text, DefineCall(W_a, Body))
    THEN [tb |-> Bodies(OneMacro),
          rest |-> SubSeq(text, Len(DefineCall(W_a, Body)) + 1, Len(text)), ok |-> TRUE]
    ELSE IF HasPrefix(text, W_define \o LP \o W_a \o RP)
    THEN [tb |-> Bodies(define(Builtins, W_a, <<>>)),
          rest |-> SubSeq(text, Len(W_define) + 4, Len(text)), ok |-> TRUE]
    ELSE [tb |-> Bodies(Builtins), rest |-> text, ok |-> FALSE]

\* no quote, no comment, no builtin: words, digits, blanks, parentheses, commas
Plain(s) ==
    /\ \A i \in 1..Len(s) : IsIdByte(s[i]) \/ s[i] \in {" ", "(", ")", ",", "."}
    /\ Idents(s) \cap DOMAIN Builtins = {}

\* one macro, a, whose body is plain text without a macro name or a parenthesis,
\* and plain text in which every argument list of a is closed
OneMacroCase ==
    /\ Given.ok
    /\ DOMAIN Given.tb = {W_a}
    /\ Plain(Given.tb[W_a])
    /\ Idents(Given.tb[W_a]) \cap {W_a} = {}
    /\ \A i \in 1..Len(Given.tb[W_a]) : Given.tb[W_a][i] \notin {"(", ")", ","}
    /\ Plain(Given.rest)
    /\ Rescan(Given.rest, Given.tb).ok

---------------------------------------------------------------------------
(* The claims about macros made by define (checked under SpecPlain) *)

\* C1 as stated: after define(name, body), however it was made, every top-level
\* occurrence of the identifier name in the text, bare or followed by a balanced
\* argument list, is replaced in the output by exactly body, and the text of
\* the arguments does not reach the output.
C1_DefineReplaces ==
    (pc = "done" /\ OneMacroCase) => stream = Replaced(Given.rest, Given.tb).out

\* C1 as the code has it: the body takes the place of the name and its argument
\* list in the text still to be read, and reading goes on from the first byte
\* of the body: a name is replaced by exactly body wherever the Lexer yields it
\* as an IDENTIFIER token at top level, the text of the arguments never
\* reaches the output, and a body that ends in an identifier byte runs into
\* the identifier bytes that follow the call, so that the name is no call there.
C1_DefineRescans ==
    (pc = "done" /\ OneMacroCase) => stream = Rescan(Given.rest, Given.tb).out

\* a was called bare and with arguments that were not empty, and the output
\* is not the input
C1_Witness ==
    /\ pc = "done"
    /\ OneMacroCase
    /\ \E i, j \in 1..Len(calls) :
          /\ calls[i].name = W_a /\ calls[i].bare /\ calls[i].depth = 0
          /\ calls[j].name = W_a /\ ~calls[j].bare /\ calls[j].depth = 0
          /\ \E k \in 1..Len(calls[j].args) : calls[j].args[k] # <<>>
    /\ stream # Given.rest
    /\ stream # <<>>

\* the macros a body names
Names(tb, n) == Idents(tb[n]) \cap DOMAIN tb

\* no macro leads back to itself through the names in the bodies
Acyclic(tb) ==
    \E rank \in [DOMAIN tb -> 1..Cardinality(DOMAIN tb)] :
        \A n \in DOMAIN tb : \A m \in Names(tb, n) : rank[m] < rank[n]

\* the macros the run is given when a body names another macro
GivenChain ==
    IF HasPrefix(text, DefineCall(W_a, W_b) \o DefineCall(W_b, W_c)) /\ macros0 = Builtins
    THEN [tb |-> Bodies(define(define(Builtins, W_a, W_b), W_b, W_c)),
          rest |-> SubSeq(text, 2 * Len(DefineCall(W_a, W_b)) + 1, Len(text)),
          ok |-> TRUE]
    ELSE Given

\* macros whose bodies are plain text that names other macros, without a
\* cycle, and plain text in which every argument list of a macro is closed
ChainCase ==
    /\ GivenChain.ok
    /\ \E n \in DOMAIN GivenChain.tb : Names(GivenChain.tb, n) # {}
    /\ Acyclic(GivenChain.tb)
    /\ \A n \in DOMAIN GivenChain.tb : Plain(GivenChain.tb[n])
    /\ Plain(GivenChain.rest)
    /\ Rescan(GivenChain.rest, GivenChain.tb).ok

---------------------------------------------------------------------------
(* Runs of Parser.parse on text that may hold no macro call and no quoted
   string: words, comments, newlines and quote bytes *)

MaxInert == 4

InertBytes == {"a", "x", "#", "\n", BQ}
InertTexts ==
    UNION {[1..n -> InertBytes] : n \in 0..MaxInert}
      \cup { <<"x", "1", " ", "(", "y", ",", "_", ")", "'", "q", "'", " ", "#", " ">>
               \o W_define \o <<"\n", "1", "x", " ">> \o W_define \o <<"_", ".">>,
             <<"]", "x", "'", " ", "\n", "\n", "#", BQ>> }

InertInit ==
    \/ InitParser(InertTexts, {Builtins, OneMacro}, {DefaultQuotes, Brackets})
    \/ InitParser(Scenarios, {Builtins, FooBar}, {DefaultQuotes})

SpecInert == InertInit /\ [][Next]_vars

\* the text holds no byte of the quote-start in force and no identifier that
\* names a macro
Inert ==
    /\ \A i \in 1..Len(text) : <<text[i]>> # start_quote
    /\ Idents(text) \cap DOMAIN macros0 = {}

\* C2: text that holds neither the quote-start nor the name of a macro is
\* written to the output byte for byte, in order, comments and whitespace
\* included; the run ends without an error and defines nothing.
C2_Identity ==
    Inert =>
        /\ pc # "error"
        /\ calls = <<>>
        /\ macros = macros0
        /\ stream \o Join([i \in 1..Len(yielded) |-> yielded[i].value]) \o chars
             \o iter.inserted \o iter.peeked \o iter.src = text
        /\ pc = "done" => stream = text

\* a finished run on text with a word, a comment, a newline and a byte that is
\* a quote-start by default but not in this run
C2_Witness ==
    /\ pc = "done"
    /\ Inert
    /\ \E i, j \in 1..Len(toks) : toks[i].type = "COMMENT" /\ toks[j].type = "IDENTIFIER"
    /\ \E i \in 1..Len(text) : text[i] = BQ
    /\ stream # <<>>

---------------------------------------------------------------------------
(* Runs of Parser.parse on text that changes the diversion between words *)

MaxDiverts == 3

DivertTo(n, w) == W_divert \o LP \o n \o RP \o w \o SP

DivertPieces ==
    { <<"k", " ">>,
      DivertTo(<<"1">>, <<"x">>),
      DivertTo(<<"2">>, <<"y">>),
      DivertTo(<<"-", "1">>, <<"z">>),
      DivertTo(<<"0">>, <<"v">>),
      DivertTo(<<"q">>, <<"u">>),
      DivertTo(<<>>, <<"e">>),
      W_divert \o SP \o <<"w", " ">> }

DivertTexts == {Join(l) : l \in UNION {[1..n -> DivertPieces] : n \in 0..MaxDiverts}}

DivertInit ==
    \/ InitParser(DivertTexts, {Builtins}, {DefaultQuotes})
    \/ InitParser(Scenarios, {Builtins, FooBar}, {DefaultQuotes, Brackets})

SpecDivert == DivertInit /\ [][Next]_vars

\* the numbers written in the texts
Numerals == {<<"0">>, <<"1">>, <<"2">>, <<"-", "1">>}
Number(v) ==
    CASE v = <<"0">> -> 0 [] v = <<"1">> -> 1 [] v = <<"2">> -> 2 [] v = <<"-", "1">> -> 0 - 1

RECURSIVE InForce(_)
\* the diversion in force after the calls cs: the number of the last divert
\* call that has a number for its first argument or no argument at all (0)
InForce(cs) ==
    IF cs = <<>> THEN 0
    ELSE LET last == cs[Len(cs)]
         IN  IF last.kind = "divert" /\ last.args = <<>> THEN 0
             ELSE IF last.kind = "divert" /\ last.args[1] \in Numerals
             THEN Number(last.args[1])
             ELSE InForce(SubSeq(cs, 1, Len(cs) - 1))

\* the values emitted at diversion d, in the order of their emission
OutAt(d) ==
    LET S == SelectSeq(emitted, LAMBDA e : e.div = d)
    IN  [i \in 1..Len(S) |-> S[i].value]

\* the highest diversion a value was emitted at
Highest == Max({0} \cup {emitted[i].div : i \in 1..Len(emitted)})

RECURSIVE Ascending(_)
\* the values emitted at the diversions d, d + 1, ..., the lower diversion first
Ascending(d) == IF d > Highest THEN <<>> ELSE Join(OutAt(d)) \o Ascending(d + 1)

\* every divert call had no argument, a number of Numerals, or a word
KnownDiverts ==
    \A i \in 1..Len(calls) :
        (calls[i].kind = "divert" /\ calls[i].args # <<>>) =>
            calls[i].args[1] \in Numerals \cup Idents(calls[i].args[1]) \cup {<<>>}

\* C7: when parse has completed, the output is the values emitted at diversion
\* 0 in their order, then the values emitted at the positive diversions, the
\* lower diversion first and each in the order of emission, each value once;
\* until then the output holds the values of diversion 0 and nothing else, and
\* afterwards every buffer is empty.
C7_FlushOrder ==
    /\ pc \in {"pull", "invoke"} => stream = Join(OutAt(0))
    /\ pc = "done" =>
          /\ stream = Join(OutAt(0)) \o Ascending(1)
          /\ \A d \in DOMAIN diversions : diversions[d] = <<>>

\* a completed run that emitted at diversion 2 before it emitted at diversion
\* 1, and at diversion 0 after both
C7_Witness ==
    /\ pc = "done"
    /\ \E i, j, k \in 1..Len(emitted) :
          /\ i < j /\ j < k
          /\ emitted[i].div = 2 /\ emitted[j].div = 1 /\ emitted[k].div = 0
          /\ emitted[k].value # SP

\* C8: every value the expansion loop hands to parse is routed by the
\* diversion in force then, the number of the most recent divert call with a
\* numeric argument, 0 at first and after divert without arguments: at 0 it is
\* written at once, at a positive number it is appended to that buffer, at a
\* negative number it goes nowhere, the final flush included.
C8_Routing ==
    KnownDiverts =>
        /\ current_diversion = InForce(calls)
        /\ \A i \in 1..Len(emitted) :
              emitted[i].div = InForce(SubSeq(calls, 1, emitted[i].after))
        /\ \A i \in 1..Len(emitted) :
              emitted[i].div = 0 =>
                  SubSeq(stream, emitted[i].at + 1, emitted[i].at + Len(emitted[i].value))
                    = emitted[i].value
        /\ \A i \in 1..Len(emitted) :
              (emitted[i].div # 0 /\ i < Len(emitted) /\ emitted[i + 1].div # 0) =>
                  emitted[i + 1].at = emitted[i].at
        /\ pc \in {"pull", "invoke"} =>
              /\ DOMAIN diversions = {emitted[i].div : i \in 1..Len(emitted)} \ (0 - 1..0)
              /\ \A d \in DOMAIN diversions : diversions[d] = OutAt(d)
        /\ Len(stream) = Len(Join(OutAt(0)))
                           + (IF pc = "done" THEN Len(Ascending(1)) ELSE 0)

\* values were emitted at a negative, at a positive and, after divert without
\* arguments, at diversion 0, and a divert call with a word changed nothing
C8_Witness ==
    /\ KnownDiverts
    /\ pc = "done"
    /\ \E i, j, k \in 1..Len(emitted) :
          /\ i < j /\ j < k
          /\ emitted[i].div < 0 /\ emitted[j].div > 0 /\ emitted[k].div = 0
          /\ calls[emitted[k].after].args = <<>>
    /\ Len(calls) = 3

---------------------------------------------------------------------------
(* Runs of Parser.parse on text that changes the quote delimiters between
   quoted words *)

MaxQuotes == 3

ChangeTo(sq, eq) == W_changequote \o LP \o sq \o CM \o eq \o RP

QuotePieces ==
    { ChangeTo(<<"[">>, <<"]">>),
      ChangeTo(<<"[", "[">>, <<"]", "]">>),
      W_changequote \o SP,
      <<BQ, "x", "'", "[", "x", "]">>,
      <<"[", "[", "x", "]", "]">> }

QuoteTexts == {Join(l) : l \in UNION {[1..n -> QuotePieces] : n \in 0..MaxQuotes}}

QuoteInit == InitParser(QuoteTexts \cup Scenarios, {Builtins, FooBar}, {DefaultQuotes})

SpecQuote == QuoteInit /\ [][Next]_vars

RECURSIVE QuotesAfter(_)
\* the delimiters in force after the calls cs: those of the last changequote
\* call, the defaults for an argument it was not given
QuotesAfter(cs) ==
    IF cs = <<>> THEN DefaultQuotes
    ELSE LET last == cs[Len(cs)]
         IN  IF last.kind = "changequote"
             THEN <<IF Len(last.args) >= 1 THEN last.args[1] ELSE <<BQ>>,
                    IF Len(last.args) >= 2 THEN last.args[2] ELSE <<"'">> >>
             ELSE QuotesAfter(SubSeq(cs, 1, Len(cs) - 1))

\* a token as it stood in the input, by the delimiters in force when it was
\* handed out
RestoreAs(tok) ==
    IF tok.type = "STRING" THEN tok.sq \o tok.value \o tok.eq ELSE tok.value

RestoredAs(ts) == Join([i \in 1..Len(ts) |-> RestoreAs(ts[i])])

\* the bytes lexed from the first byte of token i on
LexedFrom(i) == SubSeq(lexed, Len(RestoredAs(SubSeq(toks, 1, i - 1))) + 1, Len(lexed))

\* the delimiters a changequote call gave were one byte each
SingleByteQuotes ==
    \A i \in 1..Len(calls) :
        calls[i].kind = "changequote" =>
            \A k \in 1..Len(calls[i].args) : k <= 2 => Len(calls[i].args[k]) = 1

\* the delimiters in force are those of the most recent changequote call (the
\* defaults after a call without arguments); every token was lexed by the
\* delimiters in force when its bytes were read: the tokens, each STRING back
\* inside those delimiters, are the bytes lexed, so that a byte of a delimiter
\* no longer in force is an ordinary byte of a token; and text that begins
\* with the quote-start in force is a STRING token
ChangequoteInForce ==
    /\ <<start_quote, end_quote>> = QuotesAfter(calls)
    /\ \A i \in 1..Len(toks) : <<toks[i].sq, toks[i].eq>> \in
          {QuotesAfter(SubSeq(calls, 1, n)) : n \in 0..Len(calls)}
    /\ RestoredAs(toks) \o Restored(yielded) \o chars = lexed
    /\ \A i \in 1..Len(toks) :
          (toks[i].type # "STRING" /\ toks[i].sq # <<>>)
              => ~HasPrefix(LexedFrom(i), toks[i].sq)
    /\ \A j \in 1..Len(emitted) :
          \E i \in 1..Len(toks) : emitted[j].value = toks[i].value

\* C9 as stated: changequote(start, end), whatever the delimiters, takes effect
\* for every byte lexed after the call: bytes of the previous delimiters are
\* RAW tokens written verbatim, text enclosed by the new delimiters becomes a
\* STRING token without them, and changequote without arguments restores the
\* defaults.
C9_Changequote == ChangequoteInForce

\* the same with delimiters of one byte each
C9_SingleByte == SingleByteQuotes => ChangequoteInForce

\* brackets were made the delimiters, a bracketed word became a STRING token
\* and a backquote a RAW token; then the defaults were restored
C9_Witness ==
    /\ SingleByteQuotes
    /\ pc = "done"
    /\ \E i, j \in 1..Len(toks) :
          /\ toks[i].type = "STRING" /\ toks[i].sq = <<"[">> /\ toks[i].value = <<"x">>
          /\ toks[j].type = "RAW" /\ toks[j].sq = <<"[">> /\ toks[j].value = <<BQ>>
    /\ start_quote = <<BQ>>
    /\ Len(calls) = 2

---------------------------------------------------------------------------
(* Pairs of runs: Parser.parse on a text that calls the macro m once, then a
   fresh Parser with the same macros on the text with the body of m in the
   place of the call *)

MaxContext == 1

W_m == <<"m">>

PairBodies ==
    { <<"x", "1">>,
      <<>>,
      W_dnl,
      <<BQ, "z">>,
      <<"b", "(">>,
      DefineCall(<<"k">>, <<"x">>) \o <<"k">> }

PairTables == {define(define(Builtins, W_b, <<"y">>), W_m, body) : body \in PairBodies}

Before == {<<"x", " ">>, DivertTo(<<"1">>, <<>>), LP, ChangeTo(<<"[">>, <<"]">>)}
After == {<<" ", "b">>, <<"'">>, RP, NL \o <<"w">>, <<"[", "q", "]">>}

Contexts(Pieces) == {Join(l) : l \in UNION {[1..n -> Pieces] : n \in 0..MaxContext}}

PairTexts == {P \o W_m \o R : P \in Contexts(Before), R \in Contexts(After)}

PairInit ==
    \/ InitParser(PairTexts, PairTables, {DefaultQuotes})
    \/ InitParser(Scenarios, {Builtins, FooBar}, {DefaultQuotes, Brackets})

\* where the byte m stands in the text (0 when it does not)
Marked == IF \E i \in 1..Len(text) : text[i] = "m"
          THEN CHOOSE i \in 1..Len(text) : text[i] = "m"
          ELSE 0

\* the first run is over; Parser(text) is constructed again for the text with
\* the body in the place of m, and the macros are defined again
Restart ==
    /\ pc \in {"done", "error"}
    /\ ~first.set
    /\ Marked > 0
    /\ W_m \in DOMAIN macros0
    /\ first' = [stream |-> stream, macros |-> macros, error |-> error, toks |-> toks,
                 calls |-> calls, text |-> text, set |-> TRUE]
    /\ text' = SubSeq(text, 1, Marked - 1) \o macros0[W_m].body
                  \o SubSeq(text, Marked + 1, Len(text))
    /\ iter' = NewIter(text')
    /\ state' = "generic"
    /\ chars' = <<>>
    /\ nesting_level' = 0
    /\ start_quote' = DefaultStart
    /\ end_quote' = DefaultEnd
    /\ lexpc' = "loop"
    /\ yielded' = <<>>
    /\ macros' = macros0
    /\ current_diversion' = 0
    /\ diversions' = <<>>
    /\ stream' = <<>>
    /\ stack' = <<>>
    /\ pc' = "pull"
    /\ call' = NoCall
    /\ error' = ""
    /\ toks' = <<>>
    /\ lexed' = <<>>
    /\ emitted' = <<>>
    /\ calls' = <<>>
    /\ expect' = text'
    /\ UNCHANGED <<macros0, ops>>

PairNext == Next \/ Restart

SpecPair == PairInit /\ [][PairNext]_vars

\* the calls of m the first run made at top level and without "("
TopCalls ==
    {i \in 1..Len(first.calls) :
        first.calls[i].name = W_m /\ first.calls[i].bare /\ first.calls[i].depth = 0}

\* the types and the values of tokens
Plainly(ts) == [i \in 1..Len(ts) |-> [type |-> ts[i].type, value |-> ts[i].value]]

\* ts without its element i
Without(ts, i) == SubSeq(ts, 1, i - 1) \o SubSeq(ts, i + 1, Len(ts))

\* C5: text spliced by insert_text is lexed next and as if it had stood in the
\* input: when m was lexed as an identifier at top level, not followed by "(",
\* the run on the text with the body of m in its place ends as the run with m
\* ended (completed or failed alike), with the same output and the same macro
\* table, and its tokens are those of the run with m less the token m.
C5_SpliceEquivalent ==
    (first.set /\ pc \in {"done", "error"} /\ TopCalls # {}) =>
        /\ stream = first.stream
        /\ macros = first.macros
        /\ error = first.error
        /\ \A i \in TopCalls :
              Plainly(toks) = Without(Plainly(first.toks), first.calls[i].at)

\* both runs are over, m was the last byte of the first text and its body was
\* lexed after the input had run out
C5_Witness ==
    /\ first.set
    /\ pc = "done"
    /\ TopCalls # {}
    /\ first.text[Len(first.text)] = "m"
    /\ Len(first.text) > 1
    /\ \E i \in 1..Len(emitted) : emitted[i].value = Body
    /\ stream = first.stream

---------------------------------------------------------------------------
(* Runs of Parser.parse on words: letters, a digit, an underscore and a byte
   that is not ASCII, with and without the macro ab *)

MaxWord == 4

\* the byte 0xE9
NonAscii == "<E9>"
W_ab == <<"a", "b">>

WordBytes == {"a", "b", "c", "1", "_", NonAscii}
WordTexts ==
    UNION {[1..n -> WordBytes] : n \in 0..MaxWord}
      \cup { <<"a", "b", " ", "a", "b", "c", " ", "a", "b", "_", " ", "1", "a", "b", ".">>,
             <<"_", "a", "(", "a", "b", "(", "1", ")", "a", "b", "c", ")", "#", "a", "b">> }

WithAb == define(Builtins, W_ab, <<"x">>)

WordInit ==
    \/ InitParser(WordTexts, {Builtins, WithAb}, {DefaultQuotes})
    \/ InitParser(Scenarios, {Builtins, FooBar}, {DefaultQuotes, Brackets})

SpecWord == WordInit /\ [][Next]_vars

\* the input from the first byte of token i on, in a run that spliced nothing
TextFrom(i) == SubSeq(text, Len(RestoredAs(SubSeq(toks, 1, i - 1))) + 1, Len(text))

\* plain text, but for the bytes that are not ASCII
PlainWords(s) == Plain(SelectSeq(s, LAMBDA b : b # NonAscii))

\* C11: an IDENTIFIER token is the longest run of letters, digits and
\* underscores that begins, with a letter or an underscore, where the token
\* before it ended; the byte that ends it begins the next token; any other byte
\* that begins no comment and no string is a RAW token of that one byte; and
\* a macro is looked up by the whole identifier only: with ab defined, abc is
\* written as it is.
C11_MaximalMunch ==
    /\ calls = <<>> =>
          /\ RestoredAs(toks) \o Restored(yielded) \o chars = lexed
          /\ HasPrefix(text, lexed)
          /\ \A i \in 1..Len(toks) :
                /\ toks[i].type = "IDENTIFIER" =>
                      /\ IsIdStart(Head(TextFrom(i)))
                      /\ toks[i].value = SubSeq(TextFrom(i), 1, RunLen(TextFrom(i)))
                /\ toks[i].type = "RAW" =>
                      /\ toks[i].value = <<Head(TextFrom(i))>>
                      /\ ~IsIdStart(Head(TextFrom(i)))
                      /\ Head(TextFrom(i)) # "#"
                      /\ toks[i].value # toks[i].sq
                /\ (~IsIdStart(Head(TextFrom(i))) /\ Head(TextFrom(i)) # "#"
                       /\ <<Head(TextFrom(i))>> # toks[i].sq) => toks[i].type = "RAW"
    /\ \A i \in 1..Len(calls) : calls[i].name \in DOMAIN macros
    /\ (pc = "done" /\ PlainWords(text) /\ Rescan(text, Bodies(macros0)).ok) =>
          stream = Rescan(text, Bodies(macros0)).out

\* with ab defined, a finished run on text that holds abc and a digit made
\* one IDENTIFIER of abc, called nothing and wrote the text as it was
C11_Witness ==
    /\ pc = "done"
    /\ W_ab \in DOMAIN macros0
    /\ calls = <<>>
    /\ \E i, j \in 1..Len(toks) :
          /\ toks[i].type = "IDENTIFIER" /\ toks[i].value = <<"a", "b", "c">>
          /\ toks[j].type = "RAW" /\ toks[j].value \in {<<"1">>, <<NonAscii>>}
    /\ stream = text

---------------------------------------------------------------------------
(* The claim about comments (checked under SpecLex) *)

\* the index of the last byte of token i in the input
EndsAt(i) == Len(Restored(SubSeq(toks, 1, i)))

\* C12: a # met in the generic state begins a COMMENT token, whose value is
\* the # and every byte after it up to the next newline or the end of the
\* input; the newline is not part of it and is the RAW token right after it; a
\* comment that the end of the input ends is the last token, and no error
\* comes of a comment.
C12_Comment ==
    /\ \A i \in 1..Len(toks) :
          /\ toks[i].type = "COMMENT" =>
                /\ text[StartsAt(i)] = "#"
                /\ toks[i].value = SubSeq(text, StartsAt(i), EndsAt(i))
                /\ \A k \in StartsAt(i)..EndsAt(i) : text[k] # "\n"
                /\ EndsAt(i) < Len(text) => text[EndsAt(i) + 1] = "\n"
                /\ i < Len(toks) => toks[i + 1].type = "RAW" /\ toks[i + 1].value = NL
                /\ Len(toks \o yielded) > i => (toks \o yielded)[i + 1].value = NL
                /\ EndsAt(i) = Len(text) => Len(toks \o yielded) = i
          /\ (text[StartsAt(i)] = "#" /\ start_quote # <<"#">>) => toks[i].type = "COMMENT"
    /\ state = "comment" =>
          /\ chars # <<>> /\ Head(chars) = "#"
          /\ \A k \in 1..Len(chars) : chars[k] # "\n"
          /\ ~LexRaised
    /\ (pc = "done" /\ toks # <<>> /\ toks[Len(toks)].type = "COMMENT") =>
          EndsAt(Len(toks)) = Len(text)
    /\ (LexRaised \/ pc = "error") => state = "string"

\* a drained input with a comment that a newline ended, the newline as the
\* token after it, and a comment that the end of the input ended
C12_Witness ==
    /\ pc = "done"
    /\ Len(toks) = 3
    /\ toks[1].type = "COMMENT" /\ toks[2].value = NL /\ toks[3].type = "COMMENT"
    /\ Len(toks[3].value) > 1

---------------------------------------------------------------------------
(* Runs of Parser.parse on quoted and unquoted words, with the macro a *)

MaxQuoted == 5

QuotedBytes == {BQ, "'", "a", " "}
QuotedTexts ==
    UNION {[1..n -> QuotedBytes] : n \in 0..MaxQuoted}
      \cup { <<BQ>> \o W_dnl \o <<"'", " ", BQ>> \o DefineCall(W_a, W_b)
               \o <<"'", " ", BQ, BQ, "a", "(", "x", ")", "'", "'", BQ, "'">>,
              <<BQ, "a", "'", BQ, BQ, "a", "'", "'", BQ, "'">> }

QuotedInit ==
    \/ InitParser(QuotedTexts, {OneMacro}, {DefaultQuotes})
    \/ InitParser(Scenarios, {Builtins, FooBar}, {DefaultQuotes, Brackets})

SpecQuoted == QuotedInit /\ [][Next]_vars

RECURSIVE QuoteEnd(_, _, _)
\* the index of the quote-end that closes the default quote-start s begins
\* with (0 when there is none)
QuoteEnd(s, i, depth) ==
    IF i > Len(s) THEN 0
    ELSE IF s[i] = BQ THEN QuoteEnd(s, i + 1, depth + 1)
    ELSE IF s[i] = "'" THEN (IF depth = 1 THEN i ELSE QuoteEnd(s, i + 1, depth - 1))
    ELSE QuoteEnd(s, i + 1, depth)

RECURSIVE Unquoted(_)
\* s with the outermost default quotes of every quoted string taken away; ok
\* is FALSE when a quoted string is not closed
Unquoted(s) ==
    IF s = <<>> THEN [out |-> <<>>, ok |-> TRUE]
    ELSE IF Head(s) # BQ THEN Emit(<<Head(s)>>, Unquoted(Tail(s)))
    ELSE IF QuoteEnd(s, 1, 0) = 0 THEN [out |-> <<>>, ok |-> FALSE]
    ELSE Emit(SubSeq(s, 2, QuoteEnd(s, 1, 0) - 1),
              Unquoted(SubSeq(s, QuoteEnd(s, 1, 0) + 1, Len(s))))

\* the token that was handed to parse as the j-th value
EmittedToken(j) == toks[emitted[j].tok]

\* C13: a STRING token that reaches parse is written as its value, the quoted
\* text less its outermost quotes, and nothing is called or lexed because of
\* it: a macro is called only for an IDENTIFIER token, a run that called
\* nothing lexed the input and nothing else, and its output is the input with
\* one level of quotes taken away, a quoted macro name included and nothing
\* for an empty quoted string.
C13_QuotedInert ==
    /\ \A j \in 1..Len(emitted) :
          /\ emitted[j].value = EmittedToken(j).value
          /\ EmittedToken(j).type = "STRING" =>
                /\ HasPrefix(LexedFrom(emitted[j].tok), RestoreAs(EmittedToken(j)))
                /\ emitted[j].div = 0 =>
                      SubSeq(stream, emitted[j].at + 1,
                             emitted[j].at + Len(EmittedToken(j).value))
                        = EmittedToken(j).value
    /\ \A i \in 1..Len(calls) :
          calls[i].bare => toks[calls[i].at].type = "IDENTIFIER"
    /\ calls = <<>> => HasPrefix(text, lexed)
    /\ (pc = "done" /\ DefaultQuotes = <<start_quote, end_quote>>
           /\ \A i \in 1..Len(text) : text[i] # "#"
           /\ calls = <<>>) => Unquoted(text).ok /\ stream = Unquoted(text).out

\* a finished run wrote the quoted macro name a, a name still in quotes after
\* one level was taken away, and called nothing
C13_Witness ==
    /\ pc = "done"
    /\ W_a \in DOMAIN macros0
    /\ calls = <<>>
    /\ \E i, j \in 1..Len(emitted) :
          /\ EmittedToken(i).type = "STRING" /\ emitted[i].value = W_a
          /\ EmittedToken(j).type = "STRING" /\ emitted[j].value = <<BQ, "a", "'">>
    /\ \E i \in 1..Len(emitted) :
          EmittedToken(i).type = "STRING" /\ emitted[i].value = <<>>
    /\ stream # text

---------------------------------------------------------------------------
(* Runs of Parser.parse on texts with dnl, newlines and comments *)

MaxDnl == 4

DnlPieces == {W_dnl, <<"a">>, NL, SP, <<"#">>, LP, RP}
DnlTexts ==
    {Join(ps) : ps \in UNION {[1..n -> DnlPieces] : n \in 0..MaxDnl}}
      \cup { <<"a", " ">> \o W_dnl \o <<" ", "x", "\n", "b", " ">> \o W_dnl \o <<" ", "y">>,
              W_dnl \o <<" ", BQ, "\n", "'", "x", "\n", "y">>,
              W_dnl \o <<" ", BQ, "a", "\n", "b", "'", "x", "\n", "y">>,
              W_foo \o LP \o W_dnl \o <<" ", "x", "\n", "y">> \o RP \o <<"z">> }

DnlInit ==
    \/ InitParser(DnlTexts, {Builtins}, {DefaultQuotes})
    \/ InitParser(Scenarios, {Builtins, FooBar}, {DefaultQuotes, Brackets})

SpecDnl == DnlInit /\ [][Next]_vars

RECURSIVE AfterNewline(_)
\* what follows the first newline of s (nothing when s has no newline)
AfterNewline(s) ==
    IF s = <<>> THEN <<>>
    ELSE IF Head(s) = "\n" THEN Tail(s) ELSE AfterNewline(Tail(s))

RECURSIVE UpToNewline(_)
\* s up to its first newline, the newline not included
UpToNewline(s) ==
    IF s = <<>> \/ Head(s) = "\n" THEN <<>> ELSE <<Head(s)>> \o UpToNewline(Tail(s))

\* the argument list s begins with holds nothing but words, blanks, newlines
\* and parentheses, and no dnl
SimpleArgs(s) ==
    LET a == SubSeq(s, 1, Closing(s, 1, 0))
    IN  W_dnl \notin Idents(a) /\ \A i \in 1..Len(a) : a[i] # "#"

RECURSIVE Dnl(_)
\* m4 on a text without quotes whose only macro is dnl: a comment is copied,
\* and dnl, its argument list and what follows up to and including the next
\* newline give way to nothing; ok is FALSE when an argument list of dnl is
\* not simple
Dnl(s) ==
    IF s = <<>> THEN [out |-> <<>>, ok |-> TRUE]
    ELSE IF Head(s) = "#"
         THEN Emit(UpToNewline(s), Dnl(SubSeq(s, Len(UpToNewline(s)) + 1, Len(s))))
    ELSE IF ~IsIdStart(Head(s)) THEN Emit(<<Head(s)>>, Dnl(Tail(s)))
    ELSE LET id == SubSeq(s, 1, RunLen(s))
             r == SubSeq(s, RunLen(s) + 1, Len(s))
         IN  IF id # W_dnl THEN Emit(id, Dnl(r))
             ELSE IF ~HasArgs(r) THEN Dnl(AfterNewline(r))
             ELSE IF Closing(r, 1, 0) = 0 THEN [out |-> <<>>, ok |-> SimpleArgs(r)]
             ELSE IF ~SimpleArgs(r) THEN [out |-> <<>>, ok |-> FALSE]
             ELSE Dnl(AfterNewline(AfterArgs(r)))

\* the tokens the i-th call, a call of dnl, discarded: those handed out after
\* the call up to and including the first whose value is the newline
Discarded(i) ==
    LET later == {k \in calls[i].at + 1..Len(toks) : toks[k].value = NL}
    IN  IF later = {} THEN calls[i].at + 1..Len(toks)
        ELSE calls[i].at + 1..Min(later)

\* the text has no quote delimiter and no macro name but dnl
DnlCase ==
    /\ macros0 = Builtins
    /\ Idents(text) \cap DOMAIN Builtins \subseteq {W_dnl}
    /\ \A i \in 1..Len(text) : <<text[i]>> \notin {start_quote, end_quote}
    /\ Dnl(text).ok

\* C14: a call of dnl writes nothing, and no token handed out after it, up to
\* and including the first token whose value is the newline, is written or
\* makes a call; the token after that newline is treated as usual. Without a
\* newline every token to the end of the input is discarded and the run ends
\* without an error. The output of a text whose only macro is dnl is the text
\* less each call of dnl with what follows it through the next newline.
C14_Dnl ==
    /\ \A i \in 1..Len(calls) : calls[i].kind = "dnl" =>
          /\ \A j \in 1..Len(emitted) : emitted[j].tok \notin Discarded(i)
          /\ \A c \in 1..Len(calls) :
                (c # i /\ ~calls[c].eof) => calls[c].at \notin Discarded(i)
          /\ \A k \in Discarded(i) : toks[k].value = NL => k = Max(Discarded(i))
          /\ (lexpc = "finished" /\ yielded = <<>> /\ pc \in {"pull", "done"}
                /\ \A k \in Discarded(i) : toks[k].value # NL)
               => /\ Max(Discarded(i) \cup {calls[i].at}) = Len(toks)
                  /\ error = ""
          /\ \A j \in 1..Len(emitted) - 1 :
                (emitted[j].after < i /\ i <= emitted[j + 1].after
                   /\ emitted[j].div = 0 /\ emitted[j + 1].div = 0)
                => emitted[j + 1].at = emitted[j].at + Len(emitted[j].value)
    /\ \A c \in 1..Len(calls) : calls[c].eof => ~calls[c].bare
    /\ DnlCase => pc # "error"
    /\ (pc = "done" /\ DnlCase) => stream = Dnl(text).out

\* a finished run discarded a word and the newline after it, wrote what came
\* before the call and after the newline, and discarded everything after a
\* second call to the end of the input, which had no further newline
C14_Witness ==
    /\ pc = "done"
    /\ DnlCase
    /\ \E i \in 1..Len(calls) :
          /\ calls[i].kind = "dnl"
          /\ \E k \in Discarded(i) : toks[k].type = "IDENTIFIER"
          /\ toks[Max(Discarded(i))].value = NL
          /\ Max(Discarded(i)) < Len(toks)
          /\ calls[i].at > 1
    /\ stream # <<>> /\ stream # text
    /\ error = ""
    /\ \E i \in 1..Len(calls) :
          /\ calls[i].kind = "dnl"
          /\ Discarded(i) # {}
          /\ \A k \in Discarded(i) : toks[k].value # NL

---------------------------------------------------------------------------
(* The claim about a quoted string the input ends in (checked under
   SpecQuoted) *)

\* the run is over and the Lexer was left inside a quoted string
EndedInString == pc \in {"done", "error"} /\ state = "string" /\ nesting_level > 0

\* C15: a run whose input ends inside a quoted string, the nesting level not
\* back at 0, fails with ParseError, which reaches the caller of parse.
C15_Unterminated == EndedInString => pc = "error" /\ error = "ParseError"

\* the input ended inside a quoted string and the caller of parse got the
\* RuntimeError python makes of the StopIteration that next(self.iter) raised
\* in the generator; the raise of ParseError was not reached
C15_Witness ==
    /\ EndedInString
    /\ calls = <<>>
    /\ ~Unquoted(text).ok
    /\ pc = "error" /\ error = "RuntimeError"
    /\ lexpc = "RuntimeError"

---------------------------------------------------------------------------
(* The claim about an argument list the input ends in (checked under
   SpecPlain) *)

\* plain text in which an argument list of a macro of the table is not closed
ArgsLeftOpen ==
    /\ macros0 # Builtins
    /\ Plain(text)
    /\ ~Rescan(text, Bodies(macros0)).ok

\* C16: when the input ends inside the argument list of a macro call, the run
\* fails: no macro is called with the arguments read so far once the tokens
\* have run out, and parse does not finish normally.
C16_ArgsCutShort ==
    /\ \A i \in 1..Len(calls) : ~calls[i].eof
    /\ (pc \in {"done", "error"} /\ ArgsLeftOpen) => pc = "error"

\* the input ended inside the argument list of a after the word x, a was
\* called without the argument that was being read, and parse finished
\* normally, nothing written
C16_Witness ==
    /\ pc = "done" /\ error = ""
    /\ ArgsLeftOpen
    /\ \E i \in 1..Len(calls) :
          /\ calls[i].eof /\ ~calls[i].bare
          /\ calls[i].name = W_a
          /\ calls[i].args = <<>>
          /\ toks[calls[i].at].value = <<"x">>
    /\ stream = <<>>

---------------------------------------------------------------------------
(* Runs of Parser.parse with macros whose bodies name themselves; the run is
   one thread that takes its next step whenever it has one *)

MaxLoop == 3

\* define(b'a', b'a')
SelfMacro == define(Builtins, W_a, W_a)
\* a is b and b is a
CycleMacros == define(define(Builtins, W_a, W_b), W_b, W_a)

LoopTexts ==
    { <<"a">>, <<"x", " ", "a", " ", "x">>, <<"a", "(", "x", ")">>, <<"b">>, <<"x">> }

LoopInit ==
    \/ InitParser(LoopTexts, {SelfMacro, CycleMacros, OneMacro, Chain}, {DefaultQuotes})
    \/ InitParser({DefineCall(W_a, W_a) \o <<"a">>, DefineCall(W_a, W_b) \o <<"a">>},
                  {Builtins}, {DefaultQuotes})
    \/ InitParser(Scenarios, {Builtins, FooBar}, {DefaultQuotes, Brackets})

\* a step of the run while the history holds fewer than MaxLoop calls
Step == Len(calls) < MaxLoop /\ Next

\* the history is kept for MaxLoop calls and then begun again; the Lexer and
\* the Parser are left as they are
Forget ==
    /\ Len(calls) >= MaxLoop
    /\ pc \notin {"done", "error"}
    /\ toks' = <<>>
    /\ lexed' = <<>>
    /\ emitted' = <<>>
    /\ calls' = <<>>
    /\ UNCHANGED <<lexvars, parvars>>
    /\ UNCHANGED <<text, macros0, expect, ops, first>>

LoopNext == Step \/ Forget

SpecLoop == LoopInit /\ [][LoopNext]_vars /\ WF_vars(LoopNext)

\* Parser.parse has returned or raised
Stopped == pc \in {"done", "error"}

\* C17: Parser.parse stops on every input and macro table, by finishing or by a
\* fatal error, a macro whose body names itself included.
C17_Terminates == <>Stopped

\* a run with macros none of which leads back to itself, and without define in
\* the text, stops
C17_AcyclicStops ==
    (Acyclic(Bodies(macros0)) /\ W_define \notin Idents(text)) => <>Stopped

\* the macro a, whose body is a, has been called MaxLoop times in a row,
\* nothing was written and the Parser waits for the next token, which is a
C17_Witness ==
    /\ macros0 = SelfMacro
    /\ text = <<"a">>
    /\ Len(calls) = MaxLoop
    /\ \A i \in 1..Len(calls) : calls[i].name = W_a /\ calls[i].bare
    /\ pc = "pull"
    /\ iter.inserted = W_a
    /\ stream = <<>>

---------------------------------------------------------------------------
(* Runs of Parser.parse on divert calls whose argument is not a number *)

MaxNoop == 3

NoopPieces ==
    { <<"k", " ">>,
      DivertTo(<<"1">>, <<"x">>),
      DivertTo(<<"q">>, <<"u">>),
      DivertTo(<<>>, <<"e">>),
      DivertTo(<<"1", "q">>, <<"w">>),
      DivertTo(<<"-">>, <<"v">>),
      DivertTo(<<"q", ",", "2">>, <<"y">>),
      DivertTo(<<"+", "2", " ">>, <<"z">>) }

NoopTexts == {Join(l) : l \in UNION {[1..n -> NoopPieces] : n \in 0..MaxNoop}}

NoopInit ==
    \/ InitParser(NoopTexts, {Builtins}, {DefaultQuotes})
    \/ InitParser(Scenarios, {Builtins, FooBar}, {DefaultQuotes, Brackets})

SpecNoop == NoopInit /\ [][Next]_vars

\* v is a number as python reads one: blanks, a sign or none, digits with single
\* underscores between them, blanks
IsNumber(v) ==
    \E i, j \in 1..Len(v) :
        /\ i <= j
        /\ \A k \in 1..i - 1 : v[k] \in Space
        /\ \A k \in j + 1..Len(v) : v[k] \in Space
        /\ LET d == IF v[i] \in {"+", "-"} THEN i + 1 ELSE i
           IN  /\ d <= j
               /\ \A k \in d..j :
                     \/ v[k] \in Digit
                     \/ /\ v[k] = "_" /\ d < k /\ k < j
                        /\ v[k - 1] \in Digit /\ v[k + 1] \in Digit

\* the call about to be made is a divert call whose first argument is no number
NonNumericCall ==
    /\ pc = "invoke"
    /\ call.fn.kind = "divert"
    /\ call.args # <<>>
    /\ ~IsNumber(call.args[1])

\* the i-th call left the diversion as it was: it was no divert call, or a
\* divert call whose first argument was no number
LeftDiversion(i) ==
    calls[i].kind = "divert" => calls[i].args # <<>> /\ ~IsNumber(calls[i].args[1])

\* what the call leaves as it is
NoopStep ==
    /\ current_diversion' = current_diversion
    /\ diversions' = diversions
    /\ macros' = macros
    /\ start_quote' = start_quote /\ end_quote' = end_quote
    /\ stream' = stream
    /\ error' = "" /\ pc' = "pull"
    /\ iter' = iter /\ yielded' = yielded /\ stack' = stack

\* two values handed to parse with nothing but such calls between them go to
\* the same diversion, and a run of the texts above never fails
SameDiversion ==
    /\ \A j \in 1..Len(emitted) - 1 :
          (\A i \in emitted[j].after + 1..emitted[j + 1].after : LeftDiversion(i))
            => emitted[j + 1].div = emitted[j].div
    /\ (emitted # <<>> /\ \A i \in 1..emitted[1].after : LeftDiversion(i))
          => emitted[1].div = 0
    /\ (text \in NoopTexts /\ macros0 = Builtins) => pc # "error"

\* C18: a divert call whose first argument is no number leaves the current
\* diversion, the buffers, the output, the macros and the quote delimiters as
\* they were and raises nothing, and the run goes on with the token after the
\* call: the values handed to parse after it go where they went before it.
C18_NonNumericNoop == [][NonNumericCall => NoopStep]_vars /\ []SameDiversion

\* a finished run diverted to 1, called divert with the word q, and the value
\* after that call went to diversion 1 and from there to the output
C18_Witness ==
    /\ pc = "done"
    /\ \E i \in 1..Len(calls), j \in 1..Len(emitted) :
          /\ calls[i].kind = "divert" /\ calls[i].args = <<(<<"q">>)>>
          /\ emitted[j].after = i
          /\ emitted[j].div = 1 /\ emitted[j].value = <<"u">>
    /\ stream = <<"x", " ", "u", " ">>

---------------------------------------------------------------------------
(* Runs of Parser.parse on one call of a whose arguments are words, blanks,
   newlines and commas *)

MaxArg == 4

ArgBytes == {" ", "x", ",", "\n"}
ArgTexts ==
    { <<"a", "(">> \o b \o <<")">> : b \in UNION {[1..n -> ArgBytes] : n \in 0..MaxArg} }

ArgInit ==
    \/ InitParser(ArgTexts, {OneMacro}, {DefaultQuotes})
    \/ InitParser(Scenarios, {Builtins, FooBar}, {DefaultQuotes, Brackets})

SpecArgs == ArgInit /\ [][Next]_vars

RECURSIVE LStrip(_)
\* s without the whitespace it begins with
LStrip(s) == IF s # <<>> /\ Head(s) \in Space THEN LStrip(Tail(s)) ELSE s

RECURSIVE UpToComma(_)
\* s up to its first comma, the comma not included
UpToComma(s) ==
    IF s = <<>> \/ Head(s) = "," THEN <<>> ELSE <<Head(s)>> \o UpToComma(Tail(s))

RECURSIVE SplitArgs(_)
\* the arguments written in s, a text without quotes, parentheses or macro
\* names: the pieces between the commas, each without the whitespace it
\* begins with
SplitArgs(s) ==
    LET piece == UpToComma(s)
    IN  IF Len(piece) = Len(s) THEN <<LStrip(piece)>>
        ELSE <<LStrip(piece)>> \o SplitArgs(SubSeq(s, Len(piece) + 2, Len(s)))

\* the text between the parentheses of the call of a the run is given
ArgText == SubSeq(text, 3, Len(text) - 1)

\* the text define( abc, xyz)abc of ParserTests.test_define_argparse
DefineBlanks == W_define \o LP \o SP \o W_abc \o CM \o SP \o W_xyz \o RP \o W_abc

\* C19: of the tokens of an argument, the whitespace tokens before its first
\* token that is not whitespace are dropped and every later token is kept,
\* whitespace included: the arguments of a call are the pieces between the
\* commas less the whitespace each begins with, and define( abc, xyz) makes
\* the macro abc with the body xyz.
C19_LeadingBlanks ==
    /\ (text \in ArgTexts /\ macros0 = OneMacro /\ calls # <<>>) =>
          /\ calls[1].name = W_a /\ ~calls[1].bare /\ ~calls[1].eof
          /\ calls[1].args = SplitArgs(ArgText)
    /\ (text = DefineBlanks /\ macros0 = Builtins /\ calls # <<>>) =>
          /\ calls[1].args = <<W_abc, W_xyz>>
          /\ W_abc \in DOMAIN macros /\ macros[W_abc].body = W_xyz
          /\ pc = "done" => stream = W_xyz

\* a was called with an argument that lost the blank before its first word and
\* kept the blank and the newline after it
C19_Witness ==
    /\ text \in ArgTexts /\ macros0 = OneMacro
    /\ pc = "done"
    /\ ArgText = <<" ", "x", " ", "\n">>
    /\ calls[1].args = <<(<<"x", " ", "\n">>)>>

---------------------------------------------------------------------------
(* The claim about delimiters of more than one byte (checked under SpecQuote) *)

\* token i was handed out under delimiters of two or more bytes each, and the
\* bytes lexed from its first byte on begin with the word x inside them
EnclosedWord(i) ==
    /\ Len(toks[i].sq) >= 2 /\ Len(toks[i].eq) >= 2
    /\ HasPrefix(LexedFrom(i), toks[i].sq \o <<"x">> \o toks[i].eq)

\* C20: after changequote with a quote-start and a quote-end of two or more
\* bytes each, text enclosed by them is lexed as one STRING token whose value
\* is the text without the delimiters, and is written so.
C20_LongDelimiters ==
    /\ \A i \in 1..Len(toks) :
          EnclosedWord(i) => toks[i].type = "STRING" /\ toks[i].value = <<"x">>
    /\ (pc = "done"
          /\ text = ChangeTo(<<"[", "[">>, <<"]", "]">>) \o <<"[", "[", "x", "]", "]">>)
         => stream = <<"x">>

\* double brackets were made the delimiters, the word inside double brackets
\* was lexed as RAW and IDENTIFIER tokens, none of them a STRING, and written
\* with its brackets
C20_Witness ==
    /\ pc = "done"
    /\ text = ChangeTo(<<"[", "[">>, <<"]", "]">>) \o <<"[", "[", "x", "]", "]">>
    /\ start_quote = <<"[", "[">> /\ end_quote = <<"]", "]">>
    /\ \E i \in 1..Len(toks) :
          /\ EnclosedWord(i)
          /\ toks[i].type = "RAW" /\ toks[i].value = <<"[">>
          /\ toks[i + 2].type = "IDENTIFIER" /\ toks[i + 2].value = <<"x">>
    /\ \A i \in 1..Len(toks) : toks[i].type # "STRING"
    /\ stream = <<"[", "[", "x", "]", "]">>

---------------------------------------------------------------------------
(* Runs of Parser.parse on one call of a whose arguments hold parentheses *)

MaxNest == 4

NestBytes == {"x", ",", "(", ")"}
NestTexts ==
    { <<"a", "(">> \o b \o <<")">> : b \in UNION {[1..n -> NestBytes] : n \in 0..MaxNest} }

\* the text define(foo, a(b,c)d)foo
DefineNested ==
    W_define \o LP \o W_foo \o CM \o SP \o <<"a", "(", "b", ",", "c", ")", "d">> \o RP
      \o W_foo

NestInit ==
    \/ InitParser(NestTexts, {OneMacro}, {DefaultQuotes})
    \/ InitParser(Scenarios \cup {DefineNested}, {Builtins, FooBar},
                  {DefaultQuotes, Brackets})

SpecNest == NestInit /\ [][Next]_vars

RECURSIVE NestedArgs(_, _, _, _)
\* the arguments written in s, the text after the "(" of a call: the pieces
\* between the commas at depth 1, up to the ")" that matches the "(" of the
\* call, each without the whitespace it begins with; cur is the argument so
\* far and acc the arguments before it
NestedArgs(s, depth, cur, acc) ==
    IF s = <<>> THEN acc
    ELSE IF Head(s) = "(" THEN NestedArgs(Tail(s), depth + 1, cur \o <<"(">>, acc)
    ELSE IF Head(s) = ")"
         THEN IF depth = 1 THEN Append(acc, LStrip(cur))
              ELSE NestedArgs(Tail(s), depth - 1, cur \o <<")">>, acc)
    ELSE IF Head(s) = "," /\ depth = 1
         THEN NestedArgs(Tail(s), 1, <<>>, Append(acc, LStrip(cur)))
    ELSE NestedArgs(Tail(s), depth, cur \o <<Head(s)>>, acc)

\* the argument list the text has after its first word is closed
FirstCallClosed(n) == Closing(SubSeq(text, n + 1, Len(text)), 1, 0) # 0

\* C21: the arguments of a call are the pieces between the commas at depth 1,
\* ended by the ")" that matches the "(" of the call; a parenthesis or a comma
\* inside inner parentheses is kept in the argument, so that
\* define(foo, a(b,c)d) makes foo expand to a(b,c)d.
C21_NestedArgs ==
    /\ (text \in NestTexts /\ macros0 = OneMacro /\ FirstCallClosed(1) /\ calls # <<>>)
          => calls[1].args = NestedArgs(SubSeq(text, 3, Len(text)), 1, <<>>, <<>>)
    /\ (text = DefineNested /\ macros0 = Builtins /\ calls # <<>>)
          => /\ calls[1].args = <<W_foo, <<"a", "(", "b", ",", "c", ")", "d">> >>
             /\ pc = "done" => stream = <<"a", "(", "b", ",", "c", ")", "d">>

\* define(foo, a(b,c)d) was called with the four arguments foo, ab, c and d:
\* the inner "(" was dropped, the inner "," and ")" each ended an argument;
\* foo expanded to ab
C21_Witness ==
    /\ text = DefineNested /\ macros0 = Builtins
    /\ pc = "done"
    /\ calls[1].kind = "define" /\ ~calls[1].eof
    /\ calls[1].args = <<W_foo, <<"a", "b">>, <<"c">>, <<"d">> >>
    /\ stream = <<"a", "b">>

---------------------------------------------------------------------------
(* Runs of Parser.parse on texts that define b, define a by b, define b
   again under quotes, and then use a and b *)

MaxUse == 3

W_d == <<"d">>

\* define(b,c), define(a,b) and define(<BQ>b',d), each present or not
Defines(hb, ha, hr) ==
    (IF hb THEN DefineCall(W_b, W_c) ELSE <<>>)
      \o (IF ha THEN DefineCall(W_a, W_b) ELSE <<>>)
      \o (IF hr THEN DefineCall(<<BQ, "b", "'">>, W_d) ELSE <<>>)

UseBytes == {"a", "b", " "}
UseTexts == UNION {[1..n -> UseBytes] : n \in 0..MaxUse}

EagerTexts ==
    { Defines(hb, ha, hr) \o u : hb \in BOOLEAN, ha \in BOOLEAN, hr \in BOOLEAN,
                                u \in UseTexts }

EagerInit ==
    \/ InitParser(EagerTexts, {Builtins}, {DefaultQuotes})
    \/ InitParser(Scenarios, {Builtins, FooBar}, {DefaultQuotes, Brackets})

SpecEager == EagerInit /\ [][Next]_vars

\* s without the prefix pre, when it begins with it
Less(s, pre) == IF HasPrefix(s, pre) THEN SubSeq(s, Len(pre) + 1, Len(s)) ELSE s

\* the defines the text begins with, and what follows them
Shape ==
    LET DefB == DefineCall(W_b, W_c)
        DefA == DefineCall(W_a, W_b)
        DefR == DefineCall(<<BQ, "b", "'">>, W_d)
    IN  [b |-> HasPrefix(text, DefB),
         a |-> HasPrefix(Less(text, DefB), DefA),
         r |-> HasPrefix(Less(Less(text, DefB), DefA), DefR),
         use |-> Less(Less(Less(text, DefB), DefA), DefR)]

\* the bodies after the defines when the arguments of define are expanded
\* before define is called: a gets the body b has at that moment, c, or the
\* word b when b is no macro yet
EagerBodies ==
    LET none == [n \in {} |-> <<>>]
        tb1 == IF Shape.b THEN (W_b :> W_c) ELSE none
        tb2 == IF Shape.a THEN (W_a :> (IF Shape.b THEN W_c ELSE W_b)) @@ tb1 ELSE tb1
    IN  IF Shape.r THEN (W_b :> W_d) @@ tb2 ELSE tb2

EagerCase == text \in EagerTexts /\ macros0 = Builtins

\* C22: a macro call inside the argument list of another call is expanded
\* before the outer macro is called, which receives the expansion: the call of
\* b is made before the call of define(a, b), inside its argument list, define
\* is called with the body c, and a expands to c also after b was defined
\* again.
C22_EagerArgs ==
    /\ \A i \in 1..Len(calls) :
          (EagerCase /\ Shape.b /\ calls[i].kind = "define" /\ calls[i].args[1] = W_a) =>
             /\ calls[i].args = <<W_a, W_c>>
             /\ i > 1
             /\ calls[i - 1].name = W_b /\ calls[i - 1].bare
             /\ calls[i - 1].depth = calls[i].depth + 1
    /\ (EagerCase /\ pc = "done") =>
          /\ Bodies(macros) = EagerBodies
          /\ stream = Rescan(Shape.use, EagerBodies).out

\* b was c when a was defined by b and d afterwards; a expanded to c and b to d
C22_Witness ==
    /\ EagerCase /\ pc = "done"
    /\ Shape.b /\ Shape.a /\ Shape.r
    /\ Shape.use = <<"a", " ", "b">>
    /\ macros[W_a].body = W_c /\ macros[W_b].body = W_d
    /\ stream = <<"c", " ", "d">>

---------------------------------------------------------------------------
(* The claim about the nesting level (checked under SpecLex) *)

\* the quote-starts less the quote-ends among the bytes of an open string
\* (one when the two delimiters are the same byte)
OpenDepth ==
    IF start_quote = end_quote THEN 1
    ELSE Count(chars, start_quote[1], 1, Len(chars))
           - Count(chars, end_quote[1], 1, Len(chars))

\* the nesting level in a state of the Lexer
LevelInState ==
    /\ nesting_level >= 0
    /\ state = "string" => nesting_level >= 1 /\ nesting_level = OpenDepth
    /\ state # "string" => nesting_level = 0
    /\ start_quote = end_quote =>
          /\ nesting_level <= 1
          /\ \A i \in 1..Len(toks) :
                toks[i].type = "STRING" =>
                    \A k \in 1..Len(toks[i].value) : <<toks[i].value[k]>> # end_quote

\* the nesting level over a step of the Lexer
LevelInStep ==
    /\ (state # "string" /\ state' = "string") =>
          nesting_level' = 1 /\ chars' = start_quote
    /\ (state = "string" /\ state' # "string") =>
          /\ nesting_level = 1 /\ nesting_level' = 0
          /\ lexed' = Append(lexed, end_quote[1])
    /\ nesting_level' # nesting_level =>
          /\ state' = "string" \/ state = "string"
          /\ nesting_level' \in {nesting_level - 1, nesting_level + 1}
          /\ nesting_level' = nesting_level + 1 => lexed' = Append(lexed, start_quote[1])
          /\ (state = "string" /\ nesting_level' = nesting_level + 1) =>
                start_quote # end_quote

\* C23: the nesting level is at least 1 in state string and 0 in every other
\* state, never below 0; the quote-start that opens a string sets it to 1,
\* every further quote-start raises it by one and every quote-end lowers it by
\* one, and state string is left only on the quote-end that brings it to 0.
\* With one byte for both delimiters it never exceeds 1 and the string ends at
\* the next delimiter.
C23_NestingLevel == []LevelInState /\ [][LevelInStep]_vars

\* a string was open at level 2 inside a nested quote-start
C23_Witness ==
    /\ state = "string"
    /\ nesting_level = 2
    /\ chars = <<BQ, "a", BQ>>
    /\ start_quote = <<BQ>> /\ end_quote = <<"'">>

---------------------------------------------------------------------------
(* Runs of Parser.parse on texts that make the quote delimiters empty, call
   foo with and without an argument list, and end inside an argument list *)

MaxHand == 3

HandPieces ==
    { ChangeTo(<<>>, <<>>),
      W_foo,
      W_foo \o LP,
      W_changequote \o LP,
      <<"x", " ">>,
      <<BQ, "a", "'">> }

HandTexts == {Join(l) : l \in UNION {[1..n -> HandPieces] : n \in 0..MaxHand}}

HandInit ==
    \/ InitParser(HandTexts, {FooBar}, {DefaultQuotes})
    \/ InitParser(Scenarios, {Builtins, FooBar}, {DefaultQuotes, Brackets})

SpecHand == HandInit /\ [][Next]_vars

\* the Lexer accumulates nothing: state generic, no pending bytes
LexerIdle == state = "generic" /\ chars = <<>>

\* the Parser is about to call insert_text (for what a macro made by define
\* returns) or Lexer.changequote
CallsLexer == pc = "invoke" /\ call.fn.kind \in {"user", "changequote"}

\* C24: whenever the Lexer has handed out a token, which is when the Parser
\* calls peek_char, and whenever the Parser calls insert_text or changequote,
\* the Lexer is in state generic with no pending bytes.
C24_LexerIdle == (yielded # <<>> \/ CallsLexer) => LexerIdle

\* the same while the Lexer has not finished: a token handed out, or a call
\* made before the tokens ran out
C24_IdleWhileLexing ==
    (yielded # <<>> \/ (CallsLexer /\ lexpc # "finished")) => LexerIdle

\* the quote-start is empty, the input ended inside the argument list of foo,
\* the Lexer finished in state string, and foo is called, whose body
\* insert_text will splice
C24_Witness ==
    /\ CallsLexer /\ call.name = W_foo /\ ~call.bare
    /\ lexpc = "finished"
    /\ start_quote = <<>>
    /\ state = "string" /\ nesting_level = 1 /\ chars = <<>>

---------------------------------------------------------------------------
(* Runs of Parser.parse on a call of a, or of dnl, followed by punctuation
   with and without quotes *)

MaxPunct == 3

Quoted(v) == <<BQ>> \o v \o <<"'">>

PunctItems == {<<"x">>, CM, LP, RP, Quoted(CM), Quoted(LP), Quoted(RP)}
PunctTexts ==
    { <<"a", "(">> \o Join(l) \o RP : l \in UNION {[1..n -> PunctItems] : n \in 0..MaxPunct} }

LineItems == {<<"x">>, SP, NL, Quoted(NL)}
LineTexts ==
    { W_dnl \o SP \o Join(l) \o <<"y">> :
        l \in UNION {[1..n -> LineItems] : n \in 0..MaxPunct} }

\* a(x<BQ>,'x<BQ>)' dnl x<BQ>\n'y
PunctBoth ==
    <<"a", "(", "x">> \o Quoted(CM) \o <<"x">> \o Quoted(RP) \o SP \o W_dnl
      \o <<" ", "x">> \o Quoted(NL) \o <<"y">>

PunctInit ==
    \/ InitParser(PunctTexts \cup LineTexts \cup {PunctBoth}, {OneMacro}, {DefaultQuotes})
    \/ InitParser(Scenarios, {Builtins, FooBar}, {DefaultQuotes, Brackets})

SpecPunct == PunctInit /\ [][Next]_vars

RECURSIVE FlatArgs(_, _, _, _)
\* what _parse_args makes of s, the bytes after the "(" of a call, none of
\* them in quotes: "(" is counted and dropped, every "," and every ")" ends an
\* argument, and the ")" that brings the depth to 0 ends the list
FlatArgs(s, depth, cur, acc) ==
    IF s = <<>> THEN acc
    ELSE IF Head(s) = "(" THEN FlatArgs(Tail(s), depth + 1, cur, acc)
    ELSE IF Head(s) = ")"
         THEN IF depth = 1 THEN Append(acc, cur)
              ELSE FlatArgs(Tail(s), depth - 1, <<>>, Append(acc, cur))
    ELSE IF Head(s) = "," THEN FlatArgs(Tail(s), depth, <<>>, Append(acc, cur))
    ELSE FlatArgs(Tail(s), depth, cur \o <<Head(s)>>, acc)

\* the text with its quotes taken away
Bare == Unquoted(text).out

\* C25: _parse_args and dnl go by the value of a token, not by its type: the
\* arguments of a call, its end and the output are those of the text with the
\* quotes around ",", "(" and ")" taken away, the token that ends an argument
\* list has the value ")" whatever its type, and the discard of dnl ends at the
\* first token whose value is the newline, a quoted newline too.
C25_ByValue ==
    /\ \A i \in 1..Len(calls) :
          (~calls[i].bare /\ ~calls[i].eof) => toks[calls[i].at].value = RP
    /\ (text \in PunctTexts /\ macros0 = OneMacro /\ calls # <<>>) =>
          /\ calls[1].name = W_a
          /\ ~calls[1].eof =>
                calls[1].args = FlatArgs(SubSeq(Bare, 3, Len(Bare)), 1, <<>>, <<>>)
          /\ calls[1].eof <=> ~Rescan(Bare, Bodies(OneMacro)).ok
    /\ (text \in PunctTexts /\ macros0 = OneMacro /\ pc = "done"
           /\ Rescan(Bare, Bodies(OneMacro)).ok)
          => stream = Rescan(Bare, Bodies(OneMacro)).out
    /\ (text \in LineTexts /\ macros0 = OneMacro) =>
          /\ pc = "done" => stream = Dnl(Bare).out
          /\ \A i \in 1..Len(calls) : \A k \in Discarded(i) :
                toks[k].value = NL => k = Max(Discarded(i))

\* a quoted comma split the arguments of a, a quoted ")" ended the list, and a
\* quoted newline ended the discard of dnl
C25_Witness ==
    /\ text = PunctBoth /\ pc = "done"
    /\ Len(calls) = 2
    /\ calls[1].name = W_a /\ calls[1].args = <<(<<"x">>), (<<"x">>)>>
    /\ toks[calls[1].at].type = "STRING" /\ toks[calls[1].at].value = RP
    /\ calls[2].kind = "dnl"
    /\ toks[Max(Discarded(2))].type = "STRING" /\ toks[Max(Discarded(2))].value = NL
    /\ stream = <<"x", "1", " ", "y">>

====
